---------------------------- MODULE Spec2Model ----------------------------
(***************************************************************************)
(* Model of the WhatsApp Cloud API channel plugin:                         *)
(*   - crypto.ts   verifyWebhookSignature                                  *)
(*   - api.ts      splitMessage, sendRequest, sendText, sendTemplate,      *)
(*                 sendInteractive, sendButtons, sendMedia, markAsRead     *)
(*   - webhook.ts  startWebhookServer, handleVerification, handleIncoming, *)
(*                 processMessage, extractMessageContent, normalizePhone   *)
(*   - index.ts    the deliver callback of gateway.startAccount            *)
(*                                                                         *)
(* JavaScript values are represented as follows.                           *)
(*   - An optional value (a field that may be undefined, a header that may *)
(*     be absent) is a sequence of length 0 or 1: << >> is undefined and   *)
(*     <<v>> is the value v.                                               *)
(*   - A string whose characters matter (a request body, a signature       *)
(*     header, a secret, an outbound text, a phone number) is a sequence   *)
(*     of code points; a string that is only compared or concatenated is a *)
(*     TLA+ string.  Non-ASCII characters of string literals of the source *)
(*     are written <U+xxxx>.                                               *)
(***************************************************************************)
EXTENDS Integers, Sequences, FiniteSets, TLC

VARIABLES
    vIn,        \* verifyWebhookSignature: the arguments of the call
    vOut,       \* verifyWebhookSignature: << >> before the call, <<result>> after
    sText,      \* sendText: the text argument
    sPc,        \* sendText: "idle", "start", "loop", "await" (a fetch in flight),
                \*           "done", "threw" (the promise of sendText rejected)
    sChunks,    \* sendText: const chunks
    sIdx,       \* sendText: number of chunks whose iteration has begun
    sCalls,     \* sendText: the fetch calls issued, in order, with their outcome
    sResult,    \* sendText: lastResult, and the returned value once sPc = "done"
    aCall,      \* another sender of api.ts: << >> or <<the call and its arguments>>
    aPc,        \* another sender: "idle", "start", "await", "done", "threw"
    aCalls,     \* another sender: the fetch calls issued, with their outcome
    aResult,    \* another sender: << >> or <<the SendResult returned>>
    config,     \* webhook server: the WhatsAppCloudConfig it was started with
    req,        \* webhook server: << >> or <<the request being handled>>
    pc,         \* webhook server: "idle", "reading" (body being read), "done"
    response,   \* webhook server: << >> or <<what was written to res>>
    events,     \* webhook server: the effects of the current request, in order
    threw,      \* webhook server: the request listener's promise rejected
    onStatus,   \* webhook server: a status handler was given to startWebhookServer
    pending,    \* webhook server: markAsRead fetches still in flight
    settled,    \* webhook server: markAsRead fetches that settled, and how
    unhandled,  \* webhook server: a rejected promise was left without a handler
    running,    \* webhook server: the process is alive
    dPayload,   \* deliver: << >> or <<the reply payload>>
    dPc,        \* deliver: "idle", "run", "await" (a send in progress), "done", "threw"
    dPos,       \* deliver: how far it got: 0, 1 (text), 2 (mediaUrl), 2 + i (mediaUrls[i])
    dSends,     \* deliver: the sends begun, in order, with their result
    cSlots,     \* two requests in one process: per request, << >> or the request,
                \*   its position ("idle", "reading", "done") and its effects
    cRunning,   \* two requests in one process: the process is alive
    webhookServer,  \* gateway: `let webhookServer`, << >> (null) or <<index in servers>>
    servers,    \* gateway: every server startWebhookServer created: port, listening
    lastOp      \* gateway: the last lifecycle operation: "none", "start", "stop"

vars == <<vIn, vOut, sText, sPc, sChunks, sIdx, sCalls, sResult,
          aCall, aPc, aCalls, aResult,
          config, req, pc, response, events, threw, onStatus, pending,
          settled, unhandled, running, dPayload, dPc, dPos, dSends,
          cSlots, cRunning, webhookServer, servers, lastOp>>

verifyVars == <<vIn, vOut>>
sendVars == <<sText, sPc, sChunks, sIdx, sCalls, sResult>>
apiVars == <<aCall, aPc, aCalls, aResult>>
serverVars == <<config, req, pc, response, events, threw, onStatus, pending,
                settled, unhandled, running>>
deliverVars == <<dPayload, dPc, dPos, dSends>>
concurrentVars == <<cSlots, cRunning>>
gatewayVars == <<webhookServer, servers, lastOp>>

---------------------------------------------------------------------------
(* Bounds *)

MaxBodyLen == 2      \* longest request body, in characters
MaxSecretLen == 1    \* longest app secret, in characters
DigestHexLen == 4    \* hex digits of a digest (64 for SHA-256)
TextLimit == 3       \* characters per text message (4096 in sendText)
MaxTextLen == 7      \* longest text given to sendText
MaxBatch == 2        \* most messages of one change of a webhook payload
MaxButtons == 4      \* most buttons given to sendButtons
MaxTitleLen == 21    \* longest button title given to sendButtons
MaxStarts == 3       \* most servers the gateway creates in one run
MaxUrls == 2         \* most elements of mediaUrls in a reply payload

---------------------------------------------------------------------------
(* Generic helpers *)

Min(a, b) == IF a < b THEN a ELSE b

RECURSIVE Pow(_, _)
Pow(b, n) == IF n = 0 THEN 1 ELSE b * Pow(b, n - 1)

\* All sequences over S of length at most n.
SeqUpTo(S, n) == UNION {[1..k -> S] : k \in 0..n}

Front(s) == SubSeq(s, 1, Len(s) - 1)

Last(s) == s[Len(s)]

ReplaceAt(s, i, c) == [s EXCEPT ![i] = c]

\* if (x), for an optional string: undefined, null and "" are falsy
Truthy(opt) == opt # << >> /\ opt # <<"">>

\* a ?? b, for an optional a
Coalesce(opt, default) == IF opt = << >> THEN default ELSE opt[1]

---------------------------------------------------------------------------
(* crypto.ts *)

\* Buffer.from(string): the UTF-8 bytes of one code point of the BMP.
Utf8(cp) ==
    IF cp < 128 THEN <<cp>>
    ELSE IF cp < 2048 THEN <<192 + (cp \div 64), 128 + (cp % 64)>>
    ELSE <<224 + (cp \div 4096), 128 + ((cp \div 64) % 64), 128 + (cp % 64)>>

\* Buffer.from(string): the UTF-8 bytes of a string.
RECURSIVE BufferFrom(_)
BufferFrom(s) ==
    IF s = << >> THEN << >> ELSE Utf8(Head(s)) \o BufferFrom(Tail(s))

BodyAlphabet == <<97, 98>>        \* "a", "b"
SecretAlphabet == <<107, 108>>    \* "k", "l"

Rank(alphabet, c) == CHOOSE i \in 1..Len(alphabet) : alphabet[i] = c

\* An injective numbering of the strings over an alphabet.
RECURSIVE StrNum(_, _)
StrNum(alphabet, s) ==
    IF s = << >> THEN 0
    ELSE StrNum(alphabet, Front(s)) * (Len(alphabet) + 1) + Rank(alphabet, Last(s))

\* digest("hex"): lowercase hexadecimal digits, most significant first.
HexDigit(d) == IF d < 10 THEN 48 + d ELSE 87 + d

RECURSIVE ToHex(_, _)
ToHex(n, width) ==
    IF width = 0 THEN << >>
    ELSE ToHex(n \div 16, width - 1) \o <<HexDigit(n % 16)>>

\* createHmac("sha256", key).update(msg).digest("hex").  HMAC-SHA256 is a
\* library primitive; it is modelled by its contract: a deterministic keyed
\* function to a hex string of fixed length, without collisions on the
\* bounded domain of keys and messages (DigestHexLen digits hold every
\* number of a (key, message) pair).
HmacSha256Hex(key, msg) ==
    ToHex((StrNum(SecretAlphabet, key)
              * Pow(Len(BodyAlphabet) + 1, MaxBodyLen + 1)
           + StrNum(BodyAlphabet, msg)) % Pow(16, DigestHexLen),
          DigestHexLen)

Sha256Prefix == <<115, 104, 97, 50, 53, 54, 61>>    \* "sha256="

\* The first index at which two buffers of one length differ, their length
\* when they are equal.
FirstDifference(a, b) ==
    IF a = b THEN Len(a)
    ELSE CHOOSE i \in 1..Len(a) :
            a[i] # b[i] /\ \A j \in 1..(i - 1) : a[j] = b[j]

\* A comparison that returns at the first differing byte (sig === expected).
EarlyExitEqual(a, b) ==
    IF Len(a) # Len(b)
    THEN [threw |-> TRUE, value |-> FALSE, examined |-> 0]
    ELSE [threw |-> FALSE, value |-> a = b, examined |-> FirstDifference(a, b)]

\* crypto.timingSafeEqual: throws on buffers of different length, and else
\* examines every byte of both whatever their contents (`examined`).
TimingSafeEqual(a, b) ==
    IF Len(a) # Len(b)
    THEN [threw |-> TRUE, value |-> FALSE, examined |-> 0]
    ELSE [threw |-> FALSE, value |-> a = b, examined |-> Len(a)]

\* The same function without the guard on an empty secret.
verifyWithoutSecretGuard(rawBody, signatureHeader, appSecret) ==
    IF signatureHeader = << >> \/ signatureHeader = << << >> >>
    THEN [threw |-> FALSE, value |-> FALSE]
    ELSE LET expectedSignature == Sha256Prefix \o HmacSha256Hex(appSecret, rawBody)
             sigBuffer == BufferFrom(signatureHeader[1])
             expectedBuffer == BufferFrom(expectedSignature)
         IN  IF Len(sigBuffer) # Len(expectedBuffer)
             THEN [threw |-> FALSE, value |-> FALSE]
             ELSE [threw |-> FALSE,
                   value |-> TimingSafeEqual(sigBuffer, expectedBuffer).value]

\* The same function comparing only the lengths of the two buffers.
verifyLengthOnly(rawBody, signatureHeader, appSecret) ==
    IF signatureHeader = << >> \/ signatureHeader = << << >> >> \/ appSecret = << >>
    THEN [threw |-> FALSE, value |-> FALSE]
    ELSE LET expectedSignature == Sha256Prefix \o HmacSha256Hex(appSecret, rawBody)
         IN  [threw |-> FALSE,
              value |-> Len(BufferFrom(signatureHeader[1]))
                            = Len(BufferFrom(expectedSignature))]

\* verifyWebhookSignature(rawBody, signatureHeader, appSecret).
\* signatureHeader is optional; the result is [threw, value].
verifyWebhookSignature(rawBody, signatureHeader, appSecret) ==
    \* if (!signatureHeader || !appSecret) return false;
    IF signatureHeader = << >> \/ signatureHeader = << << >> >> \/ appSecret = << >>
    THEN [threw |-> FALSE, value |-> FALSE]
    ELSE LET expectedSignature == Sha256Prefix \o HmacSha256Hex(appSecret, rawBody)
             sigBuffer == BufferFrom(signatureHeader[1])
             expectedBuffer == BufferFrom(expectedSignature)
         IN  IF Len(sigBuffer) # Len(expectedBuffer)
             THEN [threw |-> FALSE, value |-> FALSE]
             ELSE LET eq == TimingSafeEqual(sigBuffer, expectedBuffer)
                  IN  \* try { ... } catch { return false; }
                      IF eq.threw THEN [threw |-> FALSE, value |-> FALSE]
                      ELSE [threw |-> FALSE, value |-> eq.value]

\* sign(body, secret) of crypto.test.ts: what the provider sends.
sign(body, secret) == Sha256Prefix \o HmacSha256Hex(secret, body)

Bodies == SeqUpTo({BodyAlphabet[i] : i \in 1..Len(BodyAlphabet)}, MaxBodyLen)

Secrets == SeqUpTo({SecretAlphabet[i] : i \in 1..Len(SecretAlphabet)}, MaxSecretLen)

\* "sha256=AB12": the hex digits a-f in upper case.
UpperHex(s) == [i \in 1..Len(s) |->
                   IF i > Len(Sha256Prefix) /\ s[i] >= 97 /\ s[i] <= 102
                   THEN s[i] - 32 ELSE s[i]]

\* Header values an attacker or a faulty sender derives from a signature g:
\* truncated, extended, last digit changed, first character replaced by a
\* two-byte character (same length in characters, longer in bytes), last two
\* characters replaced by one two-byte character (same length in bytes),
\* upper-case digits.
Tampered(g) ==
    { Front(g),
      g \o <<48>>,
      ReplaceAt(g, Len(g), IF Last(g) = 48 THEN 49 ELSE 48),
      ReplaceAt(g, 1, IF g[1] = 48 THEN 49 ELSE 48),
      ReplaceAt(g, 1, 233),
      SubSeq(g, 1, Len(g) - 2) \o <<233>>,
      UpperHex(g) }

\* The signature header of a request: absent, the empty string, a malformed
\* value, a signature of some body under some secret, or a tampered one.
SignatureHeaders ==
    { << >>, << << >> >>, << <<110, 111>> >> }
    \cup { <<sign(b, s)>> : b \in Bodies, s \in Secrets }
    \cup UNION { { <<t>> : t \in Tampered(sign(b, s)) } : b \in Bodies, s \in Secrets }

VerifyIdle == vIn = [rawBody |-> << >>, signatureHeader |-> << >>, appSecret |-> << >>]
              /\ vOut = << >>

InitVerify ==
    /\ vIn \in [rawBody : Bodies, signatureHeader : SignatureHeaders, appSecret : Secrets]
    /\ vOut = << >>

\* The call verifyWebhookSignature(rawBody, signatureHeader, appSecret).
Verify ==
    /\ vOut = << >>
    /\ vOut' = <<verifyWebhookSignature(vIn.rawBody, vIn.signatureHeader, vIn.appSecret)>>
    /\ UNCHANGED vIn


---------------------------------------------------------------------------
(* api.ts *)

\* Characters String.prototype.trim removes, among those a text is drawn from.
IsWhitespace(c) == c \in {9, 10, 11, 12, 13, 32}

RECURSIVE trimEnd(_)
trimEnd(s) ==
    IF s # << >> /\ IsWhitespace(Last(s)) THEN trimEnd(Front(s)) ELSE s

RECURSIVE trimStart(_)
trimStart(s) ==
    IF s # << >> /\ IsWhitespace(Head(s)) THEN trimStart(Tail(s)) ELSE s

\* s.lastIndexOf(c, fromIndex) for a one-character c: the greatest 0-based
\* index i <= fromIndex with s[i] = c, or -1.
lastIndexOf(s, c, fromIndex) ==
    LET hits == {i \in 0..Min(fromIndex, Len(s) - 1) : s[i + 1] = c}
    IN  IF hits = {} THEN -1 ELSE CHOOSE i \in hits : \A j \in hits : j <= i

\* s.slice(0, k) and s.slice(k), for 0 <= k
sliceTo(s, k) == SubSeq(s, 1, Min(k, Len(s)))

\* s.slice(k + 1): the rest without the character at the cut.
sliceAfter(s, k) == SubSeq(s, Min(k, Len(s)) + 2, Len(s))

sliceFrom(s, k) == SubSeq(s, Min(k, Len(s)) + 1, Len(s))

\* The same index without the step back to maxLength: the last space, or 0.
splitIndexAtSpace(remaining, maxLength) ==
    LET atSpace == lastIndexOf(remaining, 32, maxLength)
    IN  IF atSpace < 0 THEN 0 ELSE atSpace

\* The index at which one iteration of splitMessage's loop cuts `remaining`.
splitIndexOf(remaining, maxLength) ==
    LET atNewline == lastIndexOf(remaining, 10, maxLength)
        \* if (splitIndex < maxLength * 0.5)
        atSpace == IF 2 * atNewline < maxLength
                   THEN lastIndexOf(remaining, 32, maxLength)
                   ELSE atNewline
    IN  \* if (splitIndex < maxLength * 0.3) splitIndex = maxLength
        IF 10 * atSpace < 3 * maxLength THEN maxLength ELSE atSpace

\* while (remaining.length > maxLength) { ... } if (remaining.length > 0) push
RECURSIVE splitLoop(_, _, _)
splitLoop(remaining, maxLength, chunks) ==
    IF Len(remaining) > maxLength
    THEN LET splitIndex == splitIndexOf(remaining, maxLength)
         IN  splitLoop(trimStart(sliceFrom(remaining, splitIndex)), maxLength,
                       Append(chunks, trimEnd(sliceTo(remaining, splitIndex))))
    ELSE IF Len(remaining) > 0 THEN Append(chunks, remaining) ELSE chunks

\* The same function without the early return for a short text.
splitMessageNoShortcut(text, maxLength) == splitLoop(text, maxLength, << >>)

\* splitMessage(text, maxLength)
splitMessage(text, maxLength) ==
    IF Len(text) <= maxLength THEN <<text>> ELSE splitLoop(text, maxLength, << >>)

\* What one fetch of sendRequest can do: reject (a network-level exception),
\* or resolve with a status and a body that is JSON or not; an error body may
\* carry error.message.
FetchOutcomes ==
    { [rejects |-> TRUE, status |-> 0, statusText |-> "", jsonOk |-> FALSE,
       errorMessage |-> <<"ECONNREFUSED">>],
      [rejects |-> FALSE, status |-> 200, statusText |-> "OK", jsonOk |-> TRUE,
       errorMessage |-> << >>],
      [rejects |-> FALSE, status |-> 200, statusText |-> "OK", jsonOk |-> FALSE,
       errorMessage |-> <<"Unexpected token">>],
      [rejects |-> FALSE, status |-> 401, statusText |-> "Unauthorized", jsonOk |-> TRUE,
       errorMessage |-> <<"Invalid OAuth token">>],
      [rejects |-> FALSE, status |-> 400, statusText |-> "Bad Request", jsonOk |-> TRUE,
       errorMessage |-> << >>],
      [rejects |-> FALSE, status |-> 500, statusText |-> "Internal Server Error",
       jsonOk |-> FALSE, errorMessage |-> << >>] }

\* response.ok
ResponseOk(o) == o.status >= 200 /\ o.status <= 299

\* What an async function did: it returned a value, or threw an error.
Returned(value) == [threw |-> FALSE, value |-> <<value>>, error |-> << >>]
Raised(message) == [threw |-> TRUE, value |-> << >>, error |-> message]

\* The try block of sendRequest, given what its fetch did.
sendRequestTry(o) ==
    IF o.rejects
    THEN Raised(o.errorMessage)       \* await fetch(...) throws
    ELSE IF ~ResponseOk(o)
    THEN \* err = await response.json().catch(() => ({}))
         \* errorMsg = err?.error?.message ?? `HTTP ${status} ${statusText}`
         Returned([ok |-> FALSE,
                   error |-> <<Coalesce(IF o.jsonOk THEN o.errorMessage ELSE << >>,
                                        "HTTP " \o ToString(o.status) \o " "
                                           \o o.statusText)>>])
    ELSE IF ~o.jsonOk
    THEN Raised(o.errorMessage)       \* await response.json() throws
    ELSE Returned([ok |-> TRUE, error |-> << >>])

\* The same function without its catch clause.
sendRequestUncaught(o) == sendRequestTry(o)

\* sendRequest(config, body, log), given what its fetch did:
\* try { ... } catch (err) { return { ok: false, error: err.message } }
sendRequest(o) ==
    LET tried == sendRequestTry(o)
    IN  IF tried.threw
        THEN Returned([ok |-> FALSE, error |-> tried.error])
        ELSE tried

\* One fetch outcome of each kind: success, HTTP error, network exception.
OutcomeKinds ==
    {o \in FetchOutcomes : o.rejects \/ (o.status \in {200, 401} /\ o.jsonOk)}

\* markAsRead(config, messageId, log), given what its fetch did:
\* try { await fetch(...) } catch (err) { log.debug(...) }
markAsRead(o) ==
    IF o.rejects THEN Returned("undefined")     \* caught and logged
    ELSE Returned("undefined")                  \* the response is not looked at

\* The loop of sendText goes on to the next chunk whatever the last result.
afterResultIgnoringFailure(lastResult) == "loop"

\* if (!lastResult.ok) return lastResult;
afterResult(lastResult) == IF ~lastResult.ok THEN "done" ELSE "loop"

\* The text with its letters made all different: "a" at position i becomes
\* the i-th letter of the alphabet.
Lettered(t) == [i \in 1..Len(t) |-> IF t[i] = 97 THEN 96 + i ELSE t[i]]

\* Texts of "\n", " " and "a", and the same texts with all letters different.
Texts ==
    LET plain == SeqUpTo({10, 32, 97}, MaxTextLen)
    IN  plain \cup {Lettered(t) : t \in plain}

SendIdle ==
    /\ sText = << >>
    /\ sPc = "idle"
    /\ sChunks = << >>
    /\ sIdx = 0
    /\ sCalls = << >>
    /\ sResult = [ok |-> FALSE, error |-> << >>]

InitSend ==
    /\ sText \in Texts
    /\ sPc = "start"
    /\ sChunks = << >>
    /\ sIdx = 0
    /\ sCalls = << >>
    /\ sResult = [ok |-> FALSE, error |-> << >>]

\* const chunks = splitMessage(text, 4096); let lastResult = {ok:false, ...}
SendTextStart ==
    /\ sPc = "start"
    /\ sChunks' = splitMessage(sText, TextLimit)
    /\ sResult' = [ok |-> FALSE, error |-> <<"No chunks">>]
    /\ sPc' = "loop"
    /\ UNCHANGED <<sText, sIdx, sCalls>>

\* One iteration begins: sendRequest issues its fetch for the next chunk and
\* sendText awaits it.
SendRequestCall ==
    /\ sPc = "loop"
    /\ sIdx < Len(sChunks)
    /\ sIdx' = sIdx + 1
    /\ sCalls' = Append(sCalls, [body |-> sChunks[sIdx + 1], outcome |-> << >>])
    /\ sPc' = "await"
    /\ UNCHANGED <<sText, sChunks, sResult>>

\* The fetch settles; sendRequest returns its SendResult to the loop.
SendRequestSettle ==
    /\ sPc = "await"
    /\ \E o \in FetchOutcomes :
          /\ sCalls' = [sCalls EXCEPT ![Len(sCalls)].outcome = <<o>>]
          /\ sResult' = IF sendRequest(o).threw THEN sResult
                         ELSE sendRequest(o).value[1]
          \* a throw of sendRequest would end sendText, which has no try
          /\ sPc' = IF sendRequest(o).threw THEN "threw"
                    ELSE afterResult(sendRequest(o).value[1])
    /\ UNCHANGED <<sText, sChunks, sIdx>>

\* The loop is over: return lastResult.
SendTextReturn ==
    /\ sPc = "loop"
    /\ sIdx >= Len(sChunks)
    /\ sPc' = "done"
    /\ UNCHANGED <<sText, sChunks, sIdx, sCalls, sResult>>

\* The body sendTemplate hands to sendRequest; languageCode and components
\* are optional arguments.
sendTemplate(to, templateName, languageCode, components) ==
    [messaging_product |-> "whatsapp",
     to |-> to,
     type |-> "template",
     template |-> [name |-> templateName,
                   language |-> [code |-> Coalesce(languageCode, "en")],
                   \* ...(components ? { components } : {})
                   components |-> components]]

\* The body sendInteractive hands to sendRequest.
sendInteractive(to, interactive) ==
    [messaging_product |-> "whatsapp",
     recipient_type |-> "individual",
     to |-> to,
     type |-> "interactive",
     interactive |-> interactive]

\* The same mapping of every button given, with its whole title.
ReplyButtonsUncut(buttons) ==
    [i \in 1..Len(buttons) |->
        [type |-> "reply",
         reply |-> [id |-> buttons[i].id, title |-> buttons[i].title]]]

\* buttons.slice(0, 3).map((b) => ({ type: "reply", reply: { id, title } }))
ReplyButtons(buttons) ==
    LET kept == sliceTo(buttons, 3)
    IN  [i \in 1..Len(kept) |->
            [type |-> "reply",
             reply |-> [id |-> kept[i].id, title |-> sliceTo(kept[i].title, 20)]]]

\* sendButtons(config, to, bodyText, buttons, log)
sendButtons(to, bodyText, buttons) ==
    sendInteractive(to, [type |-> "button",
                         body |-> [text |-> bodyText],
                         action |-> [buttons |-> ReplyButtons(buttons)]])

\* The body sendMedia hands to sendRequest: { ..., type: mediaType,
\* [mediaType]: media }
sendMedia(to, mediaType, media) ==
    [messaging_product |-> "whatsapp",
     recipient_type |-> "individual",
     to |-> to,
     type |-> mediaType]
    @@ (mediaType :> media)

Recipient == "393491234567"

\* A button title of n characters, all different from their neighbours.
Title(n) == [i \in 1..n |-> 97 + (i % 26)]

\* The lengths of the titles given to sendButtons.
TitleLengths == {1, 20, MaxTitleLen}

\* The button lists given to sendButtons: the i-th button has id i.
ButtonLists ==
    UNION { { [i \in 1..k |-> [id |-> i, title |-> Title(len[i])]] :
                len \in [1..k -> TitleLengths] } : k \in 0..MaxButtons }

ListMessage ==
    [type |-> "list", body |-> [text |-> "Pick one"],
     action |-> [button |-> "Menu", sections |-> << >>]]

MediaLink == [link |-> <<"https://example.com/a.png">>, id |-> << >>,
              caption |-> << >>, filename |-> << >>]

\* The calls of the senders other than sendText.
ApiCalls ==
    { [fn |-> "sendTemplate", to |-> Recipient, templateName |-> "hello_world",
       languageCode |-> l, components |-> c] :
        l \in { << >>, <<"it">> },
        c \in { << >>, << << >> >>, << <<[type |-> "body"]>> >> } }
    \cup { [fn |-> "sendInteractive", to |-> Recipient, interactive |-> ListMessage] }
    \cup { [fn |-> "sendButtons", to |-> Recipient, bodyText |-> "Choose", buttons |-> b] :
             b \in ButtonLists }
    \cup { [fn |-> "sendMedia", to |-> Recipient, mediaType |-> t, media |-> m] :
             t \in {"image", "audio", "video", "document"},
             m \in { MediaLink,
                     [MediaLink EXCEPT !.link = << >>, !.id = <<"MEDIA_ID">>],
                     [MediaLink EXCEPT !.caption = <<"Look">>] } }

\* The body the called function hands to sendRequest.
RequestBody(call) ==
    CASE call.fn = "sendTemplate" ->
           sendTemplate(call.to, call.templateName, call.languageCode, call.components)
      [] call.fn = "sendInteractive" -> sendInteractive(call.to, call.interactive)
      [] call.fn = "sendButtons" -> sendButtons(call.to, call.bodyText, call.buttons)
      [] call.fn = "sendMedia" -> sendMedia(call.to, call.mediaType, call.media)

ApiIdle ==
    /\ aCall = << >>
    /\ aPc = "idle"
    /\ aCalls = << >>
    /\ aResult = << >>

InitApi ==
    /\ aCall \in { <<c>> : c \in ApiCalls }
    /\ aPc = "start"
    /\ aCalls = << >>
    /\ aResult = << >>

\* The called function builds its body; sendRequest issues its fetch and
\* awaits it.
ApiRequestCall ==
    /\ aPc = "start"
    /\ aCalls' = <<[body |-> RequestBody(aCall[1]), outcome |-> << >>]>>
    /\ aPc' = "await"
    /\ UNCHANGED <<aCall, aResult>>

\* The fetch settles; the called function returns what sendRequest returns.
ApiRequestSettle ==
    /\ aPc = "await"
    /\ \E o \in FetchOutcomes :
          /\ aCalls' = [aCalls EXCEPT ![1].outcome = <<o>>]
          /\ aResult' = sendRequest(o).value
          /\ aPc' = IF sendRequest(o).threw THEN "threw" ELSE "done"
    /\ UNCHANGED aCall


---------------------------------------------------------------------------
(* webhook.ts: content extraction and access control *)

\* opt?.field, for an optional record whose field is itself optional
Chain(opt, field) == IF opt = << >> THEN << >> ELSE opt[1][field]

\* `${x}` of a template literal, for an optional string
Interpolate(opt) == Coalesce(opt, "undefined")

\* array.join(sep) of optional strings: undefined joins as the empty string
RECURSIVE Join(_, _)
Join(items, sep) ==
    IF items = << >> THEN ""
    ELSE IF Len(items) = 1 THEN Coalesce(items[1], "")
    ELSE Coalesce(items[1], "") \o sep \o Join(Tail(items), sep)

IsDigit(c) == c \in {"0", "1", "2", "3", "4", "5", "6", "7", "8", "9"}

\* normalizePhone(phone): phone.replace(/[^0-9]/g, "")
normalizePhone(phone) == SelectSeq(phone, IsDigit)

\* What a function returns or throws: extractMessageContent's ExtractedContent.
Content(text, media, interactiveReply) ==
    [threw |-> FALSE, text |-> text, media |-> media,
     interactiveReply |-> interactiveReply]

ContentThrown ==
    [threw |-> TRUE, text |-> << >>, media |-> << >>, interactiveReply |-> << >>]

\* The same object without the MIME type of the payload.
MediaOfNoMime(m, withCaption, withFilename) ==
    [id |-> m.id, mimeType |-> << >>,
     caption |-> IF withCaption THEN m.caption ELSE << >>,
     filename |-> IF withFilename THEN m.filename ELSE << >>]

\* { id, mimeType, caption, filename } built from a MediaObject
MediaOf(m, withCaption, withFilename) ==
    [id |-> m.id, mimeType |-> m.mime_type,
     caption |-> IF withCaption THEN m.caption ELSE << >>,
     filename |-> IF withFilename THEN m.filename ELSE << >>]

\* extractMessageContent(msg)
extractMessageContent(msg) ==
    CASE msg.type = "text" ->
           Content(<<Coalesce(Chain(msg.text, "body"), "")>>, << >>, << >>)
      [] msg.type = "image" ->
           Content(<<Coalesce(Chain(msg.image, "caption"), "[<U+1F4F7> Image]")>>,
                   IF msg.image # << >>
                   THEN <<MediaOf(msg.image[1], TRUE, FALSE)>> ELSE << >>,
                   << >>)
      [] msg.type = "audio" ->
           Content(<<"[<U+1F3B5> Audio message]">>,
                   IF msg.audio # << >>
                   THEN <<MediaOf(msg.audio[1], FALSE, FALSE)>> ELSE << >>,
                   << >>)
      [] msg.type = "video" ->
           Content(<<Coalesce(Chain(msg.video, "caption"), "[<U+1F3AC> Video]")>>,
                   IF msg.video # << >>
                   THEN <<MediaOf(msg.video[1], TRUE, FALSE)>> ELSE << >>,
                   << >>)
      [] msg.type = "document" ->
           Content(<<Coalesce(Chain(msg.document, "caption"),
                              "[<U+1F4C4> Document: "
                                 \o Coalesce(Chain(msg.document, "filename"), "file")
                                 \o "]")>>,
                   IF msg.document # << >>
                   THEN <<MediaOf(msg.document[1], TRUE, TRUE)>> ELSE << >>,
                   << >>)
      [] msg.type = "sticker" ->
           Content(<<"[Sticker]">>,
                   IF msg.sticker # << >>
                   THEN <<MediaOf(msg.sticker[1], FALSE, FALSE)>> ELSE << >>,
                   << >>)
      [] msg.type = "location" ->
           \* the literal begins with "[" and ends with "]": trim() changes nothing
           Content(IF msg.location # << >>
                   THEN LET loc == msg.location[1]
                        IN  <<"[<U+1F4CD> Location: " \o Coalesce(loc.name, "") \o " "
                              \o Coalesce(loc.address,
                                          Interpolate(loc.latitude) \o ","
                                             \o Interpolate(loc.longitude))
                              \o "]">>
                   ELSE <<"[<U+1F4CD> Location]">>,
                   << >>, << >>)
      [] msg.type = "contacts" ->
           IF msg.contacts # << >>
           THEN LET cs == msg.contacts[1]
                IN  \* c.name.formatted_name throws when c.name is undefined
                    IF \E i \in 1..Len(cs) : cs[i].name = << >>
                    THEN ContentThrown
                    ELSE Content(<<"[Contact: "
                                   \o Join([i \in 1..Len(cs) |->
                                               cs[i].name[1].formatted_name], ", ")
                                   \o "]">>, << >>, << >>)
           ELSE Content(<<"[Contact]">>, << >>, << >>)
      [] msg.type = "interactive" ->
           LET reply == msg.interactive
           IN  IF Chain(reply, "type") = <<"button_reply">>
                  /\ reply[1].button_reply # << >>
               THEN Content(reply[1].button_reply[1].title, << >>,
                            <<[id |-> reply[1].button_reply[1].id,
                               title |-> reply[1].button_reply[1].title,
                               type |-> "button_reply"]>>)
               ELSE IF Chain(reply, "type") = <<"list_reply">>
                       /\ reply[1].list_reply # << >>
               THEN Content(reply[1].list_reply[1].title, << >>,
                            <<[id |-> reply[1].list_reply[1].id,
                               title |-> reply[1].list_reply[1].title,
                               type |-> "list_reply"]>>)
               ELSE Content(<<"[Interactive message]">>, << >>, << >>)
      [] msg.type = "button" ->
           Content(<<Coalesce(Chain(msg.button, "text"), "[Button]")>>, << >>, << >>)
      [] OTHER ->
           Content(<<"[" \o msg.type \o " message <U+2014> not yet supported]">>,
                   << >>, << >>)

\* What a piece of the handler did: the effects it had, in order, and whether
\* it ended by throwing.
Ran(evs) == [events |-> evs, threw |-> FALSE]
Thrown(evs) == [events |-> evs, threw |-> TRUE]

\* a; b  -- b runs only if a did not throw
AndThen(a, b) ==
    IF a.threw THEN a ELSE [events |-> a.events \o b.events, threw |-> b.threw]

\* config.allowFrom.some((n) => normalizePhone(n) === normalized)
allowed(cfg, from) ==
    \E i \in 1..Len(cfg.allowFrom) :
        normalizePhone(cfg.allowFrom[i]) = normalizePhone(from)

\* contacts.find((c) => c.wa_id === msg.from)
RECURSIVE find(_, _)
find(contacts, from) ==
    IF contacts = << >> THEN << >>
    ELSE IF contacts[1].wa_id = from THEN <<contacts[1]>>
    ELSE find(Tail(contacts), from)

\* The same message with the media put in interactiveReply as well.
InboundReplyFromMedia(msg, senderName, parsed) ==
    [from |-> msg.from,
     senderName |-> senderName,
     text |-> parsed.text,
     messageId |-> msg.id,
     timestamp |-> msg.timestamp,
     type |-> msg.type,
     media |-> parsed.media,
     interactiveReply |-> IF parsed.media # << >>
                          THEN <<[id |-> parsed.media[1].id, title |-> parsed.text,
                                  type |-> "button_reply"]>>
                          ELSE parsed.interactiveReply,
     quotedMessageId |-> Chain(msg.context, "id")]

\* The ParsedInboundMessage built by processMessage.
Inbound(msg, senderName, parsed) ==
    [from |-> msg.from,
     senderName |-> senderName,
     text |-> parsed.text,
     messageId |-> msg.id,
     timestamp |-> msg.timestamp,
     type |-> msg.type,
     media |-> parsed.media,
     interactiveReply |-> parsed.interactiveReply,
     quotedMessageId |-> Chain(msg.context, "id")]

MarkAsReadEvent(id) == [kind |-> "markAsRead", messageId |-> id]
OnMessageEvent(inbound) == [kind |-> "onMessage", message |-> inbound]
OnStatusEvent(st) ==
    [kind |-> "onStatus", messageId |-> st.id, status |-> st.status,
     recipientId |-> st.recipient_id]
RespondEvent(status, body) == [kind |-> "respond", status |-> status, body |-> body]

\* The same function calling onMessage before markAsRead.
processMessageReceiptLast(msg, contacts, cfg) ==
    IF cfg.dmPolicy = "allowlist" /\ msg.from = << >>
    THEN Thrown(<< >>)
    ELSE IF cfg.dmPolicy = "allowlist" /\ ~allowed(cfg, msg.from[1])
    THEN Ran(<< >>)
    ELSE LET parsed == extractMessageContent(msg)
         IN  IF parsed.threw \/ parsed.text = << >> THEN Thrown(<< >>)
             ELSE Ran(<<OnMessageEvent(Inbound(msg, msg.from, parsed))>>
                      \o (IF cfg.sendReadReceipts
                          THEN <<MarkAsReadEvent(msg.id)>> ELSE << >>))

\* The same function sending the read receipt before the access control.
processMessageReceiptFirst(msg, contacts, cfg) ==
    LET receipt == IF cfg.sendReadReceipts THEN <<MarkAsReadEvent(msg.id)>> ELSE << >>
    IN  IF cfg.dmPolicy = "allowlist" /\ msg.from = << >>
        THEN Thrown(receipt)
        ELSE IF cfg.dmPolicy = "allowlist" /\ ~allowed(cfg, msg.from[1])
        THEN Ran(receipt)
        ELSE LET parsed == extractMessageContent(msg)
             IN  IF parsed.threw \/ parsed.text = << >> THEN Thrown(receipt)
                 ELSE Ran(receipt \o <<OnMessageEvent(Inbound(msg, msg.from, parsed))>>)

\* processMessage(msg, contacts, config, onMessage, log)
processMessage(msg, contacts, cfg) ==
    IF cfg.dmPolicy = "allowlist" /\ msg.from = << >>
    THEN Thrown(<< >>)      \* normalizePhone(undefined): undefined.replace
    ELSE IF cfg.dmPolicy = "allowlist" /\ ~allowed(cfg, msg.from[1])
    THEN Ran(<< >>)         \* blocked
    ELSE LET contact == find(contacts, msg.from)
             \* contact?.profile?.name ?? msg.from
             senderName == IF Chain(Chain(contact, "profile"), "name") # << >>
                           THEN Chain(Chain(contact, "profile"), "name")
                           ELSE msg.from
             parsed == extractMessageContent(msg)
         IN  IF parsed.threw THEN Thrown(<< >>)
             \* log.info(... inbound.text.slice(0, 100) ...)
             ELSE IF parsed.text = << >> THEN Thrown(<< >>)
             ELSE Ran((IF cfg.sendReadReceipts
                       THEN <<MarkAsReadEvent(msg.id)>> ELSE << >>)
                      \o <<OnMessageEvent(Inbound(msg, senderName, parsed))>>)

\* The same loop from the last message to the first.
RECURSIVE processMessagesBackwards(_, _, _)
processMessagesBackwards(msgs, contacts, cfg) ==
    IF msgs = << >> THEN Ran(<< >>)
    ELSE AndThen(processMessage(Last(msgs), contacts, cfg),
                 processMessagesBackwards(Front(msgs), contacts, cfg))

\* for (const msg of messages) processMessage(msg, contacts ?? [], ...)
RECURSIVE processMessages(_, _, _)
processMessages(msgs, contacts, cfg) ==
    IF msgs = << >> THEN Ran(<< >>)
    ELSE AndThen(processMessage(msgs[1], contacts, cfg),
                 processMessages(Tail(msgs), contacts, cfg))

\* The same loop left after its first iteration.
processStatusesFirstOnly(statuses) ==
    Ran(<<OnStatusEvent(statuses[1])>>)

\* for (const status of statuses) onStatus(status.id, status.status, ...)
processStatuses(statuses) ==
    Ran([i \in 1..Len(statuses) |-> OnStatusEvent(statuses[i])])

\* The same body without the test of change.field.
processChangeAnyField(change, cfg, hasOnStatus) ==
    IF change.value = << >> THEN Thrown(<< >>)
    ELSE LET value == change.value[1]
         IN  AndThen(
                 IF value.statuses # << >> /\ Len(value.statuses[1]) > 0 /\ hasOnStatus
                 THEN processStatuses(value.statuses[1]) ELSE Ran(<< >>),
                 IF value.messages # << >> /\ Len(value.messages[1]) > 0
                 THEN processMessages(value.messages[1],
                                      Coalesce(value.contacts, << >>), cfg)
                 ELSE Ran(<< >>))

\* The body of the loop over entry.changes (the logging of value.errors has
\* no effect but the log).
processChange(change, cfg, hasOnStatus) ==
    IF change.field # "messages" THEN Ran(<< >>)
    \* const { messages, contacts, statuses, errors } = change.value
    ELSE IF change.value = << >> THEN Thrown(<< >>)
    ELSE LET value == change.value[1]
         IN  AndThen(
                 IF value.statuses # << >> /\ Len(value.statuses[1]) > 0 /\ hasOnStatus
                 THEN processStatuses(value.statuses[1]) ELSE Ran(<< >>),
                 IF value.messages # << >> /\ Len(value.messages[1]) > 0
                 THEN processMessages(value.messages[1],
                                      Coalesce(value.contacts, << >>), cfg)
                 ELSE Ran(<< >>))

RECURSIVE processChanges(_, _, _)
processChanges(changes, cfg, hasOnStatus) ==
    IF changes = << >> THEN Ran(<< >>)
    ELSE AndThen(processChange(changes[1], cfg, hasOnStatus),
                 processChanges(Tail(changes), cfg, hasOnStatus))

\* for (const entry of payload.entry) for (const change of entry.changes)
RECURSIVE processEntries(_, _, _)
processEntries(entries, cfg, hasOnStatus) ==
    IF entries = << >> THEN Ran(<< >>)
    ELSE IF entries[1].changes = << >> THEN Thrown(<< >>)
    ELSE AndThen(processChanges(entries[1].changes[1], cfg, hasOnStatus),
                 processEntries(Tail(entries), cfg, hasOnStatus))

\* handleIncoming from JSON.parse on: json is what JSON.parse(rawBody) does.
processPayload(json, cfg, hasOnStatus) ==
    IF json.kind = "SyntaxError" THEN Ran(<< >>)          \* caught, logged
    ELSE IF json.kind = "null" THEN Thrown(<< >>)         \* null.object
    ELSE IF json.kind = "scalar" THEN Ran(<< >>)          \* (5).object is undefined
    ELSE IF json.payload.object # <<"whatsapp_business_account">> THEN Ran(<< >>)
    ELSE IF json.payload.entry = << >> THEN Thrown(<< >>) \* for (... of undefined)
    ELSE processEntries(json.payload.entry[1], cfg, hasOnStatus)

---------------------------------------------------------------------------
(* webhook.ts: the request listener *)

Response(status, body) == [status |-> status, body |-> body]

\* What handling a request did: the response written, the effects in order
\* (the write of the response among them), whether the listener threw.
Handled(resp, ran) ==
    [response |-> <<resp>>, events |-> ran.events, threw |-> ran.threw]

\* The same function not looking at the token.
handleVerificationAnyToken(query, cfg) ==
    IF query.mode = <<"subscribe">> /\ Truthy(query.challenge)
    THEN Handled(Response(200, query.challenge[1]),
                 Ran(<<RespondEvent(200, query.challenge[1])>>))
    ELSE Handled(Response(403, "Forbidden"), Ran(<<RespondEvent(403, "Forbidden")>>))

\* handleVerification(url, config, res, log)
handleVerification(query, cfg) ==
    IF /\ query.mode = <<"subscribe">>
       /\ query.token = <<cfg.verifyToken>>
       /\ query.challenge # << >> /\ query.challenge # <<"">>
    THEN Handled(Response(200, query.challenge[1]),
                 Ran(<<RespondEvent(200, query.challenge[1])>>))
    ELSE Handled(Response(403, "Forbidden"), Ran(<<RespondEvent(403, "Forbidden")>>))

\* handleIncoming after the response: signature check, parse, process.
afterResponse(r, cfg, hasOnStatus) ==
    IF cfg.appSecret # << >>
       /\ ~verifyWebhookSignature(r.rawBody, r.signature, cfg.appSecret).value
    THEN Ran(<< >>)     \* log.warn, return
    ELSE processPayload(r.json, cfg, hasOnStatus)

\* The same handler answering 401 to a request whose signature fails.
handleIncomingRejecting(r, cfg, hasOnStatus) ==
    IF cfg.appSecret # << >>
       /\ ~verifyWebhookSignature(r.rawBody, r.signature, cfg.appSecret).value
    THEN Handled(Response(401, "Unauthorized"),
                 Ran(<<RespondEvent(401, "Unauthorized")>>))
    ELSE Handled(Response(200, "OK"),
                 AndThen(Ran(<<RespondEvent(200, "OK")>>),
                         processPayload(r.json, cfg, hasOnStatus)))

\* The same handler never checking the signature.
handleIncomingUnverified(r, cfg, hasOnStatus) ==
    Handled(Response(200, "OK"),
            AndThen(Ran(<<RespondEvent(200, "OK")>>),
                    processPayload(r.json, cfg, hasOnStatus)))

\* The same handler writing the response once the payload is processed.
handleIncomingRespondingLast(r, cfg, hasOnStatus) ==
    LET ran == afterResponse(r, cfg, hasOnStatus)
    IN  Handled(Response(200, "OK"),
                [events |-> ran.events \o <<RespondEvent(200, "OK")>>,
                 threw |-> ran.threw])

\* handleIncoming(req, res, config, onMessage, onStatus, log), once the body
\* has been read: res.writeHead(200); res.end("OK"); then the rest.
handleIncoming(r, cfg, hasOnStatus) ==
    Handled(Response(200, "OK"),
            AndThen(Ran(<<RespondEvent(200, "OK")>>),
                    afterResponse(r, cfg, hasOnStatus)))

HealthBody == "{\"status\":\"ok\",\"channel\":\"whatsapp-cloud\"}"

\* Is the request routed to handleIncoming?
IsWebhookPost(r, cfg) ==
    r.urlParses /\ r.method = "POST" /\ r.path = cfg.webhookPath

\* The routes of the request listener that answer without reading a body.
route(r, cfg) ==
    \* const url = new URL(req.url ?? "/", `http://${req.headers.host ?? ...}`)
    IF ~r.urlParses
    THEN [response |-> << >>, events |-> << >>, threw |-> TRUE]
    ELSE IF r.method = "GET" /\ r.path = cfg.webhookPath
    THEN handleVerification(r.query, cfg)
    ELSE IF r.method = "GET" /\ r.path = "/health"
    THEN Handled(Response(200, HealthBody), Ran(<<RespondEvent(200, HealthBody)>>))
    ELSE Handled(Response(404, "Not found"), Ran(<<RespondEvent(404, "Not found")>>))

\* The message ids of the sendTypingIndicator calls among some effects: the
\* message callback of the gateway calls it first, for the message it is given.
TypingIndicatorIds(evs) ==
    LET calls == SelectSeq(evs, LAMBDA e : e.kind = "onMessage")
    IN  [i \in 1..Len(calls) |-> calls[i].message.messageId]

\* The message ids of the markAsRead calls among some effects.
MarkAsReadIds(evs) ==
    LET calls == SelectSeq(evs, LAMBDA e : e.kind = "markAsRead")
    IN  [i \in 1..Len(calls) |-> calls[i].messageId]

---------------------------------------------------------------------------
(* The requests and configurations the server is run with *)

WebhookPath == "/webhook/whatsapp-cloud"
VerifyToken == "test-verify"
AppSecret == <<107>>            \* "k"
OtherSecret == <<108>>          \* "l"
RawBody == <<97>>               \* the bytes of the request body
OtherBody == <<98>>

Sender1 == <<"3", "9", "1">>
Sender2 == <<"3", "9", "2">>
SenderNoDigits == <<"x">>
DisplayName == <<"A", "n", "n">>

AllowLists ==
    { << >>,
      << <<"+", "3", "9", " ", "1">> >>,
      << Sender2, <<"3", "9", "-", "1">> >>,
      << <<"+">> >> }

Configs ==
    [appSecret : {<< >>, AppSecret},
     verifyToken : {VerifyToken},
     webhookPath : {WebhookPath},
     dmPolicy : {"open", "allowlist"},
     allowFrom : AllowLists,
     sendReadReceipts : BOOLEAN]

BaseMsg ==
    [from |-> <<Sender1>>, id |-> "wamid.1", timestamp |-> "1700000000",
     type |-> "text", text |-> << >>, image |-> << >>, audio |-> << >>,
     video |-> << >>, document |-> << >>, sticker |-> << >>, location |-> << >>,
     contacts |-> << >>, interactive |-> << >>, button |-> << >>, context |-> << >>]

MediaObject(caption, filename) ==
    [id |-> <<"MEDIA_ID">>, mime_type |-> <<"image/jpeg">>,
     caption |-> caption, filename |-> filename]

Reply(title) == [id |-> <<"btn_yes">>, title |-> title]

TextHello == [BaseMsg EXCEPT !.text = <<[body |-> <<"Hello bot!">>]>>]

\* A message of kind contacts whose contact has no name.
ContactsNoName ==
    [BaseMsg EXCEPT !.type = "contacts", !.contacts = << << [name |-> << >>] >> >>,
                    !.id = "wamid.3"]

\* One message of every kind, with its optional parts present or missing.
ContentMsgs ==
    { [BaseMsg EXCEPT !.text = t] :
        t \in { << >>, <<[body |-> << >>]>>, <<[body |-> <<"">>]>>,
                <<[body |-> <<"Hello bot!">>]>> } }
    \cup { [BaseMsg EXCEPT !.type = "image", !.image = m] :
             m \in { << >>, <<MediaObject(<< >>, << >>)>>,
                     <<MediaObject(<<"nice">>, << >>)>>,
                     <<MediaObject(<<"">>, << >>)>>,
                     <<[MediaObject(<< >>, << >>) EXCEPT !.mime_type = << >>]>> } }
    \cup { [BaseMsg EXCEPT !.type = "audio", !.audio = m] :
             m \in { << >>, <<MediaObject(<< >>, << >>)>> } }
    \cup { [BaseMsg EXCEPT !.type = "video", !.video = m] :
             m \in { << >>, <<MediaObject(<< >>, << >>)>>,
                     <<MediaObject(<<"clip">>, << >>)>> } }
    \cup { [BaseMsg EXCEPT !.type = "document", !.document = m] :
             m \in { << >>, <<MediaObject(<< >>, << >>)>>,
                     <<MediaObject(<< >>, <<"a.pdf">>)>>,
                     <<MediaObject(<<"report">>, <<"a.pdf">>)>> } }
    \cup { [BaseMsg EXCEPT !.type = "sticker", !.sticker = m] :
             m \in { << >>, <<MediaObject(<< >>, << >>)>> } }
    \cup { [BaseMsg EXCEPT !.type = "location", !.location = l] :
             l \in { << >>,
                     <<[latitude |-> <<"45.4">>, longitude |-> <<"9.1">>,
                        name |-> << >>, address |-> << >>]>>,
                     <<[latitude |-> <<"45.4">>, longitude |-> <<"9.1">>,
                        name |-> <<"Duomo">>, address |-> <<"Milano">>]>>,
                     <<[latitude |-> << >>, longitude |-> << >>,
                        name |-> << >>, address |-> << >>]>> } }
    \cup { [BaseMsg EXCEPT !.type = "contacts", !.contacts = c] :
             c \in { << >>,
                     << << [name |-> <<[formatted_name |-> <<"Bob">>]>>] >> >>,
                     << << [name |-> <<[formatted_name |-> <<"Bob">>]>>],
                           [name |-> <<[formatted_name |-> <<"Eve">>]>>] >> >>,
                     << << [name |-> <<[formatted_name |-> << >>]>>] >> >>,
                     << << [name |-> << >>] >> >> } }
    \cup { [BaseMsg EXCEPT !.type = "interactive", !.interactive = i] :
             i \in { << >>,
                     <<[type |-> <<"button_reply">>,
                        button_reply |-> <<Reply(<<"Yes">>)>>, list_reply |-> << >>]>>,
                     <<[type |-> <<"list_reply">>,
                        button_reply |-> << >>, list_reply |-> <<Reply(<<"Menu">>)>>]>>,
                     <<[type |-> <<"button_reply">>,
                        button_reply |-> << >>, list_reply |-> << >>]>>,
                     <<[type |-> <<"button_reply">>,
                        button_reply |-> <<Reply(<< >>)>>, list_reply |-> << >>]>>,
                     <<[type |-> <<"list_reply">>,
                        button_reply |-> << >>, list_reply |-> <<Reply(<<"">>)>>]>>,
                     <<[type |-> << >>,
                        button_reply |-> << >>, list_reply |-> << >>]>> } }
    \cup { [BaseMsg EXCEPT !.type = "button", !.button = b] :
             b \in { << >>, <<[text |-> <<"Go">>]>>, <<[text |-> << >>]>> } }
    \cup { [BaseMsg EXCEPT !.type = "reaction"] }

\* The same text message from every kind of sender, and as a reply.
SenderMsgs ==
    { [TextHello EXCEPT !.from = f] :
        f \in { << >>, <<Sender2>>, <<SenderNoDigits>>,
                <<<<"+", "3", "9", " ", "1">>>> } }
    \cup { [TextHello EXCEPT !.context = <<[id |-> <<"wamid.0">>]>>] }

\* The messages batches are made of: two that extract, from two senders, and
\* two whose optional parts are missing.
BatchMsgs ==
    { TextHello,
      [TextHello EXCEPT !.from = <<Sender2>>, !.id = "wamid.2"],
      ContactsNoName,
      [BaseMsg EXCEPT !.id = "wamid.4"] }

Batches == UNION { [1..k -> BatchMsgs] : k \in 2..MaxBatch }

Status(id, st) == [id |-> id, status |-> st, recipient_id |-> "391"]

StatusLists ==
    { << >>, <<Status("wamid.8", "sent")>>,
      <<Status("wamid.8", "delivered"), Status("wamid.9", "read")>> }

ContactLists ==
    { <<[wa_id |-> <<Sender1>>, profile |-> <<[name |-> <<DisplayName>>]>>]>>,
      <<[wa_id |-> <<Sender1>>, profile |-> << >>]>>,
      <<[wa_id |-> <<Sender2>>, profile |-> <<[name |-> <<DisplayName>>]>>]>> }

Value(messages, contacts, statuses) ==
    [messages |-> messages, contacts |-> contacts, statuses |-> statuses]

Change(field, value) == [field |-> field, value |-> value]

Entry(changes) == [changes |-> changes]

Payload(object, entry) == [object |-> object, entry |-> entry]

ExpectedObject == <<"whatsapp_business_account">>

\* A payload of one entry with one change of field "messages".
OneChange(value) ==
    Payload(ExpectedObject, << << Entry(<< << Change("messages", <<value>>) >> >>) >> >>)

Values ==
    { Value(<< <<m>> >>, << >>, << >>) : m \in ContentMsgs \cup SenderMsgs }
    \cup { Value(<< <<TextHello>> >>, <<c>>, << >>) : c \in ContactLists }
    \cup { Value(<<b>>, << >>, << >>) : b \in Batches }
    \cup { Value(m, << >>, <<s>>) :
             m \in { << >>, << << >> >>, << <<TextHello>> >> }, s \in StatusLists }
    \cup { Value(<< >>, << >>, << >>) }

\* Payloads whose messages are spread over two changes or two entries, and
\* payloads with a part of the envelope missing or foreign.
Payloads ==
    { OneChange(v) : v \in Values }
    \cup { Payload(ExpectedObject,
                   << << Entry(<< << Change("messages", <<Value(<< <<m1>> >>, << >>, << >>)>>),
                                     Change("messages", <<Value(<< <<m2>> >>, << >>, << >>)>>)
                                  >> >>) >> >>) :
             m1 \in BatchMsgs, m2 \in BatchMsgs }
    \cup { Payload(ExpectedObject,
                   << << Entry(<< << Change("messages", <<Value(<< <<m1>> >>, << >>, << >>)>>)
                                  >> >>),
                         Entry(<< << Change("messages", <<Value(<< <<m2>> >>, << >>, << >>)>>)
                                  >> >>) >> >>) :
             m1 \in BatchMsgs, m2 \in BatchMsgs }
    \cup { Payload(ExpectedObject,
                   << << Entry(<< << Change(f, <<Value(<< <<TextHello>> >>, << >>, << >>)>>),
                                     Change("messages",
                                            <<Value(<< <<TextHello>> >>, << >>, << >>)>>)
                                  >> >>) >> >>) :
             f \in {"account_update", "messages"} }
    \cup { Payload(o, << << Entry(<< << Change("messages",
                                               <<Value(<< <<TextHello>> >>, << >>, << >>)>>)
                                    >> >>) >> >>) :
             o \in { << >>, <<"page">> } }
    \cup { Payload(ExpectedObject, << >>),
           Payload(ExpectedObject, << << >> >>),
           Payload(ExpectedObject, << << Entry(<< >>) >> >>),
           Payload(ExpectedObject, << << Entry(<< << >> >>) >> >>),
           Payload(ExpectedObject, << << Entry(<< << Change("messages", << >>) >> >>) >> >>),
           Payload(ExpectedObject,
                   << << Entry(<< << Change("account_update", << >>) >> >>) >> >>),
           Payload(ExpectedObject,
                   << << Entry(<< << Change("account_update", << >>),
                                     Change("messages",
                                            <<Value(<< <<TextHello>> >>, << >>,
                                                    <<<<Status("wamid.8", "sent")>>>>)>>)
                                  >> >>) >> >>) }

\* What JSON.parse(rawBody) does: throws a SyntaxError, or returns null, a
\* number, string or boolean, or an object.
Jsons ==
    { [kind |-> k, payload |-> Payload(<< >>, << >>)] :
        k \in {"SyntaxError", "null", "scalar"} }
    \cup { [kind |-> "object", payload |-> p] : p \in Payloads }

NoQuery == [mode |-> << >>, token |-> << >>, challenge |-> << >>]

\* The X-Hub-Signature-256 header of a POST: absent, the provider's signature
\* of the body, the signature of another body, a signature under another
\* secret.
PostSignatures ==
    { << >>, <<sign(RawBody, AppSecret)>>, <<sign(OtherBody, AppSecret)>>,
      <<sign(RawBody, OtherSecret)>> }

Request(method, path, query, signature, json) ==
    [method |-> method, path |-> path, query |-> query, signature |-> signature,
     rawBody |-> RawBody, json |-> json, urlParses |-> TRUE]

NoBody == [kind |-> "SyntaxError", payload |-> Payload(<< >>, << >>)]

\* A request whose target and Host header make no URL: new URL(...) throws
\* (the target "//", or a Host header such as "["); `path` is the target.
Unparseable(method, target) ==
    [Request(method, target, NoQuery, << >>, NoBody) EXCEPT !.urlParses = FALSE]

PostRequests ==
    { Request("POST", WebhookPath, NoQuery, sig, j) : sig \in PostSignatures, j \in Jsons }

OtherRequests ==
    { Request("GET", WebhookPath, q, << >>, NoBody) :
        q \in [mode : {<< >>, <<"subscribe">>, <<"unsubscribe">>},
               token : {<< >>, <<VerifyToken>>, <<"wrong">>},
               challenge : {<< >>, <<"">>, <<"abc123">>}] }
    \cup { Request(m, p, NoQuery, << >>, NoBody) :
             m \in {"GET", "POST", "PUT"}, p \in {"/health", "/unknown"} }
    \cup { Request("PUT", WebhookPath, NoQuery, << >>, NoBody) }
    \cup { Unparseable(m, "//") : m \in {"GET", "POST"} }

---------------------------------------------------------------------------
(* The webhook server as a state machine *)

ServerIdle ==
    /\ config = [appSecret |-> << >>, verifyToken |-> VerifyToken,
                 webhookPath |-> WebhookPath, dmPolicy |-> "open",
                 allowFrom |-> << >>, sendReadReceipts |-> FALSE]
    /\ onStatus = FALSE
    /\ req = << >>
    /\ pc = "idle"
    /\ response = << >>
    /\ events = << >>
    /\ threw = FALSE
    /\ pending = << >>
    /\ settled = << >>
    /\ unhandled = FALSE
    /\ running = TRUE

\* startWebhookServer(config, onMessage, onStatus, log)
InitServer ==
    /\ config \in Configs
    /\ onStatus \in BOOLEAN
    /\ req = << >>
    /\ pc = "idle"
    /\ response = << >>
    /\ events = << >>
    /\ threw = FALSE
    /\ pending = << >>
    /\ settled = << >>
    /\ unhandled = FALSE
    /\ running = TRUE

\* A POST on the webhook path arrives: handleIncoming begins to read its body.
ReceivePost ==
    /\ pc = "idle"
    /\ running
    /\ \E r \in PostRequests :
          /\ IsWebhookPost(r, config)
          /\ req' = <<r>>
    /\ pc' = "reading"
    /\ UNCHANGED <<config, onStatus, response, events, threw, pending,
                   settled, unhandled, running>>

\* What the runtime does with a promise that was rejected and has no handler:
\* it goes on (a warning, or a handler of the host), or it ends the process
\* (the default of Node.js 15 and later).
AfterRejection(rejected) == IF rejected THEN BOOLEAN ELSE {TRUE}

\* Any other request arrives: the listener answers it at once, or throws
\* before it has answered (nothing handles the promise of the listener).
ReceiveOther ==
    /\ pc = "idle"
    /\ running
    /\ \E r \in OtherRequests :
          /\ ~IsWebhookPost(r, config)
          /\ req' = <<r>>
          /\ response' = route(r, config).response
          /\ events' = route(r, config).events
          /\ threw' = route(r, config).threw
          /\ unhandled' = (unhandled \/ route(r, config).threw)
          /\ running' \in AfterRejection(route(r, config).threw)
    /\ pc' = "done"
    /\ UNCHANGED <<config, onStatus, pending, settled>>

\* The body has been read: the rest of handleIncoming runs to its end (it has
\* no other await); the fetch of every markAsRead it called is in flight.  The
\* listener awaits handleIncoming with no try around it, and nothing handles
\* the promise of the listener: a throw of handleIncoming is an unhandled
\* rejection.
HandleIncoming ==
    /\ pc = "reading"
    /\ running
    /\ LET done == handleIncoming(req[1], config, onStatus)
       IN  /\ response' = done.response
           /\ events' = done.events
           /\ threw' = done.threw
           /\ pending' = MarkAsReadIds(done.events)
           /\ unhandled' = (unhandled \/ done.threw)
           /\ running' \in AfterRejection(done.threw)
    /\ pc' = "done"
    /\ UNCHANGED <<config, onStatus, req, settled>>

\* The fetch of one of the markAsRead calls settles, in any order; nothing
\* awaits the promise of markAsRead.
MarkAsReadSettle ==
    /\ running
    /\ \E i \in 1..Len(pending), o \in OutcomeKinds :
          /\ pending' = SubSeq(pending, 1, i - 1) \o SubSeq(pending, i + 1, Len(pending))
          /\ settled' = Append(settled, [messageId |-> pending[i], outcome |-> o])
          /\ unhandled' = (unhandled \/ markAsRead(o).threw)
          /\ running' \in AfterRejection(markAsRead(o).threw)
    /\ UNCHANGED <<config, onStatus, req, pc, response, events, threw>>

\* The request is over and its receipts have settled: the listener waits for
\* the next request.
NextRequest ==
    /\ pc = "done"
    /\ running
    /\ pending = << >>
    /\ req' = << >>
    /\ pc' = "idle"
    /\ response' = << >>
    /\ events' = << >>
    /\ threw' = FALSE
    /\ settled' = << >>
    /\ UNCHANGED <<config, onStatus, pending, unhandled, running>>

---------------------------------------------------------------------------
(* index.ts: the deliver callback of the reply dispatcher *)

\* payload.mediaUrls?.length
UrlsOf(payload) == Coalesce(payload.mediaUrls, << >>)

\* Does deliver send at position p: 1 the text, 2 mediaUrl, 2 + i mediaUrls[i]?
SendsAt(payload, p) ==
    IF p = 1 THEN Truthy(payload.text)
    ELSE IF p = 2 THEN Truthy(payload.mediaUrl)
    ELSE p - 2 <= Len(UrlsOf(payload))

\* The send of position p: sendText(config, message.from, payload.text, log)
\* or sendMedia(config, message.from, "image", { link }, log).
SendAt(payload, p) ==
    IF p = 1 THEN [fn |-> "sendText", arg |-> payload.text[1]]
    ELSE IF p = 2 THEN [fn |-> "sendMedia", arg |-> payload.mediaUrl[1]]
    ELSE [fn |-> "sendMedia", arg |-> UrlsOf(payload)[p - 2]]

\* The positions after p at which deliver sends.
Remaining(payload, p) ==
    {q \in (p + 1)..(2 + Len(UrlsOf(payload))) : SendsAt(payload, q)}

\* deliver giving up at the first send that is not ok.
afterSendStoppingOnFailure(result) == IF result.ok THEN "run" ELSE "done"

\* await sendText(...) / await sendMedia(...): the result is not looked at.
afterSend(result) == "run"

ReplyPayloads ==
    [text : {<< >>, <<"">>, <<"Hi">>},
     mediaUrl : {<< >>, <<"">>, <<"https://example.com/0.png">>},
     mediaUrls : {<< >>}
                 \cup { <<u>> : u \in SeqUpTo({"https://example.com/1.png",
                                               "https://example.com/2.png"}, MaxUrls) }]

DeliverIdle ==
    /\ dPayload = << >>
    /\ dPc = "idle"
    /\ dPos = 0
    /\ dSends = << >>

InitDeliver ==
    /\ dPayload \in { <<p>> : p \in ReplyPayloads }
    /\ dPc = "run"
    /\ dPos = 0
    /\ dSends = << >>

\* deliver reaches its next send and awaits it.
DeliverSend ==
    /\ dPc = "run"
    /\ Remaining(dPayload[1], dPos) # {}
    /\ LET p == CHOOSE q \in Remaining(dPayload[1], dPos) :
                    \A r \in Remaining(dPayload[1], dPos) : q <= r
       IN  /\ dPos' = p
           /\ dSends' = Append(dSends, [send |-> SendAt(dPayload[1], p), result |-> << >>])
    /\ dPc' = "await"
    /\ UNCHANGED dPayload

\* The send returns; deliver does not look at its result, and a throw of the
\* send would end deliver.
DeliverSettle ==
    /\ dPc = "await"
    /\ \E o \in OutcomeKinds :
          /\ dSends' = [dSends EXCEPT ![Len(dSends)].result = sendRequest(o).value]
          /\ dPc' = IF sendRequest(o).threw THEN "threw"
                    ELSE afterSend(sendRequest(o).value[1])
    /\ UNCHANGED <<dPayload, dPos>>

\* Nothing is left to send: deliver returns.
DeliverReturn ==
    /\ dPc = "run"
    /\ Remaining(dPayload[1], dPos) = {}
    /\ dPc' = "done"
    /\ UNCHANGED <<dPayload, dPos, dSends>>

---------------------------------------------------------------------------
(* Two requests in one process *)

\* The POSTs that are handled two at a time: signed or not, a body that is
\* not an object, one message, a batch from two senders, statuses.
ConcurrentRequests ==
    { Request("POST", WebhookPath, NoQuery, sig, j) :
        sig \in { << >>, <<sign(RawBody, AppSecret)>> },
        j \in { [kind |-> "null", payload |-> Payload(<< >>, << >>)],
                [kind |-> "object", payload |-> OneChange(Value(<< <<TextHello>> >>, << >>, << >>))],
                [kind |-> "object",
                 payload |-> OneChange(Value(
                     << <<TextHello, [TextHello EXCEPT !.from = <<Sender2>>,
                                                        !.id = "wamid.2"]>> >>,
                     << >>, <<<<Status("wamid.8", "sent")>>>>))] } }

\* No request has arrived.
ConcurrentIdle ==
    /\ cSlots = [i \in {1, 2} |->
                    [req |-> << >>, pc |-> "idle", response |-> << >>,
                     events |-> << >>, threw |-> FALSE]]
    /\ cRunning = TRUE

\* A POST on the webhook path arrives while the other request is at any
\* point: handleIncoming begins to read its body.
Arrive(i) ==
    /\ cRunning
    /\ cSlots[i].pc = "idle"
    /\ \E r \in ConcurrentRequests :
          cSlots' = [cSlots EXCEPT ![i] = [@ EXCEPT !.req = <<r>>, !.pc = "reading"]]
    /\ UNCHANGED <<cRunning, serverVars>>

\* The body of request i has been read: the rest of handleIncoming runs to
\* its end without another await; it reads config and writes no variable
\* shared with the other request.  A throw is an unhandled rejection, which
\* may end the process both requests are handled by.
Handle(i) ==
    /\ cRunning
    /\ cSlots[i].pc = "reading"
    /\ LET done == handleIncoming(cSlots[i].req[1], config, onStatus)
       IN  /\ cSlots' = [cSlots EXCEPT ![i] =
                            [@ EXCEPT !.pc = "done", !.response = done.response,
                                      !.events = done.events, !.threw = done.threw]]
           /\ cRunning' \in AfterRejection(done.threw)
    /\ UNCHANGED serverVars

---------------------------------------------------------------------------
(* index.ts: the lifecycle of the gateway *)

\* let webhookServer: Server | null = null;
GatewayIdle ==
    /\ webhookServer = << >>
    /\ servers = << >>
    /\ lastOp = "none"

\* gateway.startAccount(ctx) / gateway.start(ctx): returns when the channel is
\* disabled or its configuration invalid; else webhookServer =
\* startWebhookServer(...), whose server.listen(config.webhookPort) binds the
\* port, or fails with EADDRINUSE (an "error" event, logged) when it is bound.
StartAccount ==
    \E cfg \in [enabled : BOOLEAN, valid : BOOLEAN, webhookPort : {3000, 3001}] :
        /\ IF ~cfg.enabled \/ ~cfg.valid
           THEN UNCHANGED <<webhookServer, servers>>
           ELSE LET inUse == \E i \in 1..Len(servers) :
                                 /\ servers[i].listening
                                 /\ servers[i].port = cfg.webhookPort
                IN  /\ Len(servers) < MaxStarts
                    /\ servers' = Append(servers, [port |-> cfg.webhookPort,
                                                   listening |-> ~inUse])
                    /\ webhookServer' = <<Len(servers) + 1>>
        /\ lastOp' = "start"

\* gateway.logoutAccount / gateway.stop:
\* if (webhookServer) { webhookServer.close(); webhookServer = null; }
LogoutAccount ==
    /\ IF webhookServer # << >>
       THEN /\ servers' = [servers EXCEPT ![webhookServer[1]].listening = FALSE]
            /\ webhookServer' = << >>
       ELSE UNCHANGED <<webhookServer, servers>>
    /\ lastOp' = "stop"

---------------------------------------------------------------------------
(* Specifications *)

\* The webhook server handling a request.
Init ==
    /\ InitServer /\ VerifyIdle /\ SendIdle /\ ApiIdle /\ DeliverIdle
    /\ ConcurrentIdle /\ GatewayIdle

Next ==
    \/ ReceivePost /\ UNCHANGED <<verifyVars, sendVars, apiVars, deliverVars,
                    concurrentVars, gatewayVars>>
    \/ ReceiveOther /\ UNCHANGED <<verifyVars, sendVars, apiVars, deliverVars,
                    concurrentVars, gatewayVars>>
    \/ HandleIncoming /\ UNCHANGED <<verifyVars, sendVars, apiVars, deliverVars,
                    concurrentVars, gatewayVars>>
    \/ MarkAsReadSettle /\ UNCHANGED <<verifyVars, sendVars, apiVars, deliverVars,
                    concurrentVars, gatewayVars>>
    \/ NextRequest /\ UNCHANGED <<verifyVars, sendVars, apiVars, deliverVars,
                    concurrentVars, gatewayVars>>

Spec == Init /\ [][Next]_vars

\* One call of verifyWebhookSignature.
InitV ==
    /\ InitVerify /\ SendIdle /\ ApiIdle /\ ServerIdle /\ DeliverIdle
    /\ ConcurrentIdle /\ GatewayIdle

NextV == Verify /\ UNCHANGED <<sendVars, apiVars, serverVars, deliverVars,
                    concurrentVars, gatewayVars>>

SpecVerify == InitV /\ [][NextV]_vars

\* One call of a sender of api.ts: sendText, or one of the others.
InitS ==
    /\ \/ InitSend /\ ApiIdle
       \/ SendIdle /\ InitApi
    /\ VerifyIdle
    /\ ServerIdle
    /\ DeliverIdle
    /\ ConcurrentIdle
    /\ GatewayIdle

NextS ==
    \/ SendTextStart /\ UNCHANGED <<verifyVars, apiVars, serverVars, deliverVars,
                    concurrentVars, gatewayVars>>
    \/ SendRequestCall /\ UNCHANGED <<verifyVars, apiVars, serverVars, deliverVars,
                    concurrentVars, gatewayVars>>
    \/ SendRequestSettle /\ UNCHANGED <<verifyVars, apiVars, serverVars, deliverVars,
                    concurrentVars, gatewayVars>>
    \/ SendTextReturn /\ UNCHANGED <<verifyVars, apiVars, serverVars, deliverVars,
                    concurrentVars, gatewayVars>>
    \/ ApiRequestCall /\ UNCHANGED <<verifyVars, sendVars, serverVars, deliverVars,
                    concurrentVars, gatewayVars>>
    \/ ApiRequestSettle /\ UNCHANGED <<verifyVars, sendVars, serverVars, deliverVars,
                    concurrentVars, gatewayVars>>

SpecSend == InitS /\ [][NextS]_vars

\* One call of the deliver callback.
InitD ==
    /\ InitDeliver /\ VerifyIdle /\ SendIdle /\ ApiIdle /\ ServerIdle
    /\ ConcurrentIdle /\ GatewayIdle

NextD ==
    \/ DeliverSend /\ UNCHANGED <<verifyVars, sendVars, apiVars, serverVars,
                    concurrentVars, gatewayVars>>
    \/ DeliverSettle /\ UNCHANGED <<verifyVars, sendVars, apiVars, serverVars,
                    concurrentVars, gatewayVars>>
    \/ DeliverReturn /\ UNCHANGED <<verifyVars, sendVars, apiVars, serverVars,
                    concurrentVars, gatewayVars>>

SpecDeliver == InitD /\ [][NextD]_vars

\* Two POSTs on the webhook path handled by one listener.
InitC ==
    /\ InitServer /\ ConcurrentIdle
    /\ VerifyIdle /\ SendIdle /\ ApiIdle /\ DeliverIdle /\ GatewayIdle

NextC ==
    \/ \E i \in DOMAIN cSlots : Arrive(i) /\ UNCHANGED <<verifyVars, sendVars, apiVars,
                                                  deliverVars, gatewayVars>>
    \/ \E i \in DOMAIN cSlots : Handle(i) /\ UNCHANGED <<verifyVars, sendVars, apiVars,
                                                  deliverVars, gatewayVars>>

SpecConcurrent == InitC /\ [][NextC]_vars

\* The lifecycle operations of the gateway, in any order.
InitG ==
    /\ GatewayIdle
    /\ VerifyIdle /\ SendIdle /\ ApiIdle /\ ServerIdle /\ DeliverIdle /\ ConcurrentIdle

NextG ==
    \/ StartAccount /\ UNCHANGED <<verifyVars, sendVars, apiVars, serverVars,
                                    deliverVars, concurrentVars>>
    \/ LogoutAccount /\ UNCHANGED <<verifyVars, sendVars, apiVars, serverVars,
                                     deliverVars, concurrentVars>>

SpecGateway == InitG /\ [][NextG]_vars

---------------------------------------------------------------------------
(* Properties *)

\* The request being handled is a POST on the webhook path, handled to its end.
PostDone == pc = "done" /\ req # << >> /\ IsWebhookPost(req[1], config)

\* The signature header of the request is the provider's signature of its body
\* under the configured secret.
SignedByProvider ==
    req # << >> /\ req[1].signature = <<sign(req[1].rawBody, config.appSecret)>>

EventsOfKind(kind) == SelectSeq(events, LAMBDA e : e.kind = kind)

\* The payload of scenario A: one text message "Hello bot!" from Sender1.
TextHelloPayload == OneChange(Value(<< <<TextHello>> >>, << >>, << >>))

\* C1: every POST on the webhook path whose body has been read is answered
\* 200 "OK", whatever its signature, body, payload or senders.
C1_PostAnswered200 ==
    PostDone =>
        /\ response = <<Response(200, "OK")>>
        /\ EventsOfKind("respond") = <<RespondEvent(200, "OK")>>

C1_Witness ==
    /\ PostDone
    /\ config.appSecret # << >>
    /\ req[1].signature = << >>
    /\ response = <<Response(200, "OK")>>

\* C2: with an app secret configured, a POST whose signature header is missing
\* or is not the signature of the raw body has no effect but the response: no
\* message callback, no status callback, no markAsRead; with no app secret
\* the payload is processed whatever the signature header.
C2_SignatureGate ==
    PostDone =>
        /\ (config.appSecret # << >> /\ ~SignedByProvider)
              => events = <<RespondEvent(200, "OK")>>
        /\ config.appSecret = << >>
              => /\ events = <<RespondEvent(200, "OK")>>
                              \o processPayload(req[1].json, config, onStatus).events
                 /\ (req[1].json.kind = "object"
                       /\ req[1].json.payload = TextHelloPayload
                       /\ config.dmPolicy = "open")
                      => Len(EventsOfKind("onMessage")) = 1

C2_Witness ==
    /\ PostDone
    /\ config.appSecret # << >>
    /\ req[1].signature = <<sign(OtherBody, config.appSecret)>>
    /\ req[1].json.kind = "object"
    /\ req[1].json.payload = TextHelloPayload
    /\ config.dmPolicy = "open"
    /\ config.sendReadReceipts
    /\ events = <<RespondEvent(200, "OK")>>

\* C3: in the handling of one POST the 200 response is written before any
\* markAsRead call and before any message or status callback.
C3_ResponseFirst ==
    (req # << >> /\ IsWebhookPost(req[1], config)) =>
        \A i \in 1..Len(events) :
            events[i].kind # "respond" =>
                \E j \in 1..(i - 1) : events[j].kind = "respond"

C3_Witness ==
    /\ PostDone
    /\ Len(events) >= 4
    /\ events[1].kind = "respond"
    /\ events[2].kind = "onStatus"
    /\ events[3].kind = "markAsRead"
    /\ events[4].kind = "onMessage"

\* C4, as claimed: for all bodies b and secrets s the signature of b under s
\* verifies against b, and it does not verify against any other body.
C4_RoundTripAnySecret ==
    vOut # << >> =>
        /\ vIn.signatureHeader = <<sign(vIn.rawBody, vIn.appSecret)>>
              => vOut[1] = [threw |-> FALSE, value |-> TRUE]
        /\ \A b \in Bodies :
              (b # vIn.rawBody /\ vIn.signatureHeader = <<sign(b, vIn.appSecret)>>)
                 => vOut[1] = [threw |-> FALSE, value |-> FALSE]

\* C4, amended: for all bodies b and non-empty secrets s the signature of b
\* under s verifies against b; for every secret it does not verify against
\* any other body.
C4_RoundTrip ==
    vOut # << >> =>
        /\ (vIn.appSecret # << >>
              /\ vIn.signatureHeader = <<sign(vIn.rawBody, vIn.appSecret)>>)
              => vOut[1] = [threw |-> FALSE, value |-> TRUE]
        /\ \A b \in Bodies :
              (b # vIn.rawBody /\ vIn.signatureHeader = <<sign(b, vIn.appSecret)>>)
                 => vOut[1] = [threw |-> FALSE, value |-> FALSE]

C4_Witness ==
    /\ vOut = <<[threw |-> FALSE, value |-> TRUE]>>
    /\ vIn.appSecret # << >>
    /\ Len(vIn.rawBody) = MaxBodyLen
    /\ vIn.signatureHeader = <<sign(vIn.rawBody, vIn.appSecret)>>

\* C5: verifyWebhookSignature returns false and does not throw when the secret
\* is empty, when the header is absent, or when the header's length in bytes
\* differs from that of the computed "sha256=<hex>" value.
C5_FalseNeverThrows ==
    (/\ vOut # << >>
     /\ \/ vIn.appSecret = << >>
        \/ vIn.signatureHeader = << >>
        \/ Len(BufferFrom(vIn.signatureHeader[1]))
              # Len(BufferFrom(sign(vIn.rawBody, vIn.appSecret))))
        => vOut[1] = [threw |-> FALSE, value |-> FALSE]

\* A header as long as the computed value in characters, longer in bytes.
C5_Witness ==
    /\ vOut = <<[threw |-> FALSE, value |-> FALSE]>>
    /\ vIn.appSecret # << >>
    /\ vIn.signatureHeader # << >>
    /\ Len(vIn.signatureHeader[1]) = Len(sign(vIn.rawBody, vIn.appSecret))
    /\ Len(BufferFrom(vIn.signatureHeader[1]))
          > Len(BufferFrom(sign(vIn.rawBody, vIn.appSecret)))

\* The messages of a payload, in array order: those of the changes of field
\* "messages" of its entries.
RECURSIVE Flatten(_)
Flatten(seqs) == IF seqs = << >> THEN << >> ELSE Head(seqs) \o Flatten(Tail(seqs))

MessagesOfChange(change) ==
    IF change.field = "messages" /\ change.value # << >>
    THEN Coalesce(change.value[1].messages, << >>) ELSE << >>

MessagesOfEntry(entry) ==
    LET changes == Coalesce(entry.changes, << >>)
    IN  Flatten([i \in 1..Len(changes) |-> MessagesOfChange(changes[i])])

MessagesOf(json) ==
    IF json.kind = "object" /\ json.payload.object = ExpectedObject
    THEN LET entries == Coalesce(json.payload.entry, << >>)
         IN  Flatten([i \in 1..Len(entries) |-> MessagesOfEntry(entries[i])])
    ELSE << >>

\* The digits of a sender id or of an allowFrom entry.
RECURSIVE DigitsOf(_)
DigitsOf(phone) ==
    IF phone = << >> THEN << >>
    ELSE IF Head(phone) \in {"0", "1", "2", "3", "4", "5", "6", "7", "8", "9"}
    THEN <<Head(phone)>> \o DigitsOf(Tail(phone))
    ELSE DigitsOf(Tail(phone))

\* The access policy as specified.
PolicyAllows(cfg, from) ==
    \/ cfg.dmPolicy = "open"
    \/ /\ cfg.dmPolicy = "allowlist"
       /\ \E i \in 1..Len(cfg.allowFrom) : DigitsOf(cfg.allowFrom[i]) = DigitsOf(from)

\* How many message callbacks were made for message m.
TimesDispatched(m) ==
    Len(SelectSeq(events, LAMBDA e :
            e.kind = "onMessage" /\ e.message.messageId = m.id
                                 /\ e.message.from = m.from))

\* The request passed the signature gate.
Verified == config.appSecret = << >> \/ SignedByProvider

\* The content of message m can be extracted and logged on its own.
Extractable(m) ==
    /\ ~extractMessageContent(m).threw
    /\ extractMessageContent(m).text # << >>

\* C6: each message of a verified batch that has a sender id and a content
\* that can be extracted is dispatched if and only if the policy allows its
\* sender, whatever the other messages of the batch: open allows every sender,
\* allowlist the senders whose digits are the digits of some allowFrom entry.
C6_DispatchedIffAllowed ==
    (PostDone /\ Verified) =>
        LET msgs == MessagesOf(req[1].json)
        IN  \A i \in 1..Len(msgs) :
                (msgs[i].from # << >> /\ Extractable(msgs[i])) =>
                    TimesDispatched(msgs[i])
                       = IF PolicyAllows(config, msgs[i].from[1])
                         THEN Len(SelectSeq(msgs, LAMBDA m : m.id = msgs[i].id
                                                    /\ m.from = msgs[i].from))
                         ELSE 0

\* C7: the processing of a well-formed JSON body whose object type is the
\* expected one completes without throwing, whatever optional field is
\* missing.
C7_NormalizationTotal ==
    (/\ PostDone
     /\ Verified
     /\ req[1].json.kind = "object"
     /\ req[1].json.payload.object = ExpectedObject)
        => ~threw

\* C8: every message handed to the message callback has a non-empty text.
C8_TextNonEmpty ==
    \A i \in 1..Len(events) :
        events[i].kind = "onMessage" =>
            /\ events[i].message.text # << >>
            /\ events[i].message.text # <<"">>

\* The result of the k-th fetch of sendText.
ResultOfCall(k) == sendRequest(sCalls[k].outcome[1]).value[1]

\* C9: sendText requests the chunks one at a time and in order, one request
\* per chunk; a chunk is requested only after the one before returned ok; the
\* first failing chunk ends the sends and its result is returned; the result
\* is ok only if every chunk succeeded.
C9_SequentialChunks ==
    /\ Len(sCalls) <= Len(sChunks)
    /\ \A k \in 1..Len(sCalls) : sCalls[k].body = sChunks[k]
    /\ \A k \in 1..(Len(sCalls) - 1) :
          sCalls[k].outcome # << >> /\ ResultOfCall(k).ok
    /\ sPc = "done" =>
          /\ \A k \in 1..Len(sCalls) : sCalls[k].outcome # << >>
          /\ sResult = ResultOfCall(Len(sCalls))
          /\ sResult.ok <=> /\ Len(sCalls) = Len(sChunks)
                            /\ \A k \in 1..Len(sCalls) : ResultOfCall(k).ok

\* The second of three chunks fails: the third is never requested.
C9_Witness ==
    /\ sPc = "done"
    /\ Len(sChunks) = 3
    /\ Len(sCalls) = 2
    /\ ~sResult.ok
    /\ sResult = ResultOfCall(2)

\* C10: a text no longer than the limit is sent in exactly one request whose
\* body is the text; every body sent is no longer than the limit.
C10_ChunkLength ==
    /\ \A k \in 1..Len(sCalls) : Len(sCalls[k].body) <= TextLimit
    /\ (sPc = "done" /\ Len(sText) <= TextLimit)
          => /\ Len(sCalls) = 1
             /\ sCalls[1].body = sText

C10_Witness ==
    /\ sPc = "done"
    /\ Len(sText) > 2 * TextLimit
    /\ Len(sCalls) = 3
    /\ Len(sCalls[1].body) = TextLimit
    /\ sResult.ok

\* Is s made of whitespace only?
IsGap(s) == \A i \in 1..Len(s) : IsWhitespace(s[i])

\* Is text the chunks in order, each one a contiguous piece of it, with
\* nothing but whitespace before the first, between two and after the last?
RECURSIVE Reassembles(_, _)
Reassembles(text, chunks) ==
    IF chunks = << >> THEN IsGap(text)
    ELSE \E k \in 0..(Len(text) - Len(chunks[1])) :
            /\ IsGap(SubSeq(text, 1, k))
            /\ SubSeq(text, k + 1, k + Len(chunks[1])) = chunks[1]
            /\ Reassembles(SubSeq(text, k + Len(chunks[1]) + 1, Len(text)),
                           Tail(chunks))

NonWhitespace(s) == SelectSeq(s, LAMBDA c : ~IsWhitespace(c))

\* C11: the chunks of a text are contiguous pieces of it, in order, and what
\* lies between them is whitespace only: the concatenation of the chunks is
\* the text less whitespace at chunk boundaries, its non-whitespace characters
\* are those of the text in the same order, and whitespace inside a chunk is
\* kept.
C11_OnlyBoundaryWhitespace ==
    sPc \notin {"idle", "start"} =>
        /\ Reassembles(sText, sChunks)
        /\ NonWhitespace(Flatten(sChunks)) = NonWhitespace(sText)

\* Two chunks of different letters, whitespace kept inside one and removed
\* between the two.
C11_Witness ==
    /\ sPc = "done"
    /\ Len(sChunks) = 2
    /\ \E i \in 2..(Len(sChunks[1]) - 1) : IsWhitespace(sChunks[1][i])
    /\ Len(Flatten(sChunks)) < Len(sText)
    /\ Cardinality({sText[i] : i \in 1..Len(sText)} \ {10, 32}) >= 4

\* The generic message of a response that is not 2xx.
GenericMessage(o) == "HTTP " \o ToString(o.status) \o " " \o o.statusText

\* Does the SendResult tell what the fetch did?  Not ok when the fetch was
\* rejected or its response is not 2xx (so ok only for a 2xx response); the
\* error is the message of the exception, or the error.message of the body
\* when the body is JSON that carries one, or else the generic message.
Reports(result, o) ==
    /\ (o.rejects \/ ~ResponseOk(o)) => ~result.ok
    /\ o.rejects => result.error = o.errorMessage
    /\ (~o.rejects /\ ~ResponseOk(o)) =>
          result.error = IF o.jsonOk /\ o.errorMessage # << >>
                         THEN o.errorMessage
                         ELSE <<GenericMessage(o)>>

\* C12: no sender throws, whatever its fetch does: on a rejected fetch or a
\* response that is not 2xx it returns ok false with the error described
\* above, and it returns ok true only for a 2xx response.
C12_SendersNeverThrow ==
    /\ sPc # "threw"
    /\ aPc # "threw"
    /\ sPc = "done" => Reports(sResult, Last(sCalls).outcome[1])
    /\ aPc = "done" => Reports(aResult[1], aCalls[1].outcome[1])

\* sendButtons gets a 500 whose body is not JSON.
C12_Witness ==
    /\ aPc = "done"
    /\ aCall[1].fn = "sendButtons"
    /\ aCalls[1].outcome[1].status = 500
    /\ ~aCalls[1].outcome[1].jsonOk
    /\ aResult = <<[ok |-> FALSE, error |-> <<"HTTP 500 Internal Server Error">>]>>

\* C18: the payload of sendButtons holds the first 3 of the given buttons, or
\* all of them when fewer are given, in their order; the title of each is the
\* first 20 characters of the given title: of length 20 when the given one is
\* longer, the given title itself otherwise.
C18_ButtonsCut ==
    (aCall # << >> /\ aCall[1].fn = "sendButtons" /\ aCalls # << >>) =>
        LET given == aCall[1].buttons
            sent == aCalls[1].body.interactive.action.buttons
        IN  /\ Len(sent) = Min(Len(given), 3)
            /\ \A i \in 1..Len(sent) :
                  /\ sent[i].type = "reply"
                  /\ sent[i].reply.id = given[i].id
                  /\ sent[i].reply.title
                        = SubSeq(given[i].title, 1, Min(Len(given[i].title), 20))
                  /\ Len(given[i].title) > 20 => Len(sent[i].reply.title) = 20
                  /\ Len(given[i].title) <= 20 => sent[i].reply.title = given[i].title

\* Four buttons given, the first with a title of more than 20 characters and
\* the second with a short one: three are sent.
C18_Witness ==
    /\ aPc = "done"
    /\ aCall[1].fn = "sendButtons"
    /\ Len(aCall[1].buttons) = 4
    /\ Len(aCall[1].buttons[1].title) > 20
    /\ Len(aCall[1].buttons[2].title) < 20
    /\ Len(aCalls[1].body.interactive.action.buttons) = 3
    /\ Len(aCalls[1].body.interactive.action.buttons[1].reply.title) = 20
    /\ aResult[1].ok

\* The sends of a payload, in order: the text when textGiven, mediaUrl when
\* urlGiven, then every element of mediaUrls.
SendsWhen(payload, textGiven, urlGiven) ==
    (IF textGiven THEN <<[fn |-> "sendText", arg |-> payload.text[1]]>> ELSE << >>)
    \o (IF urlGiven THEN <<[fn |-> "sendMedia", arg |-> payload.mediaUrl[1]]>>
        ELSE << >>)
    \o [i \in 1..Len(UrlsOf(payload)) |->
            [fn |-> "sendMedia", arg |-> UrlsOf(payload)[i]]]

IsPrefix(s, t) == Len(s) <= Len(t) /\ s = SubSeq(t, 1, Len(s))

\* The sends deliver has begun are the first ones of `expected`, one begun
\* only when the one before has returned; deliver does not throw, and when it
\* returns it has made every send of `expected`, whatever their results.
DeliversInOrder(expected) ==
    /\ dPc # "threw"
    /\ IsPrefix([i \in 1..Len(dSends) |-> dSends[i].send], expected)
    /\ \A i \in 1..(Len(dSends) - 1) : dSends[i].result # << >>
    /\ dPc = "done" =>
          /\ Len(dSends) = Len(expected)
          /\ \A i \in 1..Len(dSends) : dSends[i].result # << >>

\* C17, as claimed: deliver sends the text if text is present, then mediaUrl
\* if it is present, then each element of mediaUrls, in this order and one
\* after the other, whatever the result of each send.
C17_DeliverOrderIfPresent ==
    dPayload # << >> =>
        DeliversInOrder(SendsWhen(dPayload[1], dPayload[1].text # << >>,
                                  dPayload[1].mediaUrl # << >>))

\* C17, amended: deliver sends the text if text is present and not empty,
\* then mediaUrl if it is present and not empty, then each element of
\* mediaUrls, in this order and one after the other, whatever the result of
\* each send.
C17_DeliverOrder ==
    dPayload # << >> =>
        DeliversInOrder(SendsWhen(dPayload[1], Truthy(dPayload[1].text),
                                  Truthy(dPayload[1].mediaUrl)))

\* Text, mediaUrl and two mediaUrls: four sends, the first and the third
\* failed.
C17_Witness ==
    /\ dPc = "done"
    /\ Len(dSends) = 4
    /\ dSends[1].send = [fn |-> "sendText", arg |-> "Hi"]
    /\ dSends[2].send.fn = "sendMedia"
    /\ dSends[3].send.arg # dSends[4].send.arg
    /\ ~dSends[1].result[1].ok
    /\ dSends[2].result[1].ok
    /\ ~dSends[3].result[1].ok

\* C13: whatever POST was handled (signature failed, body not JSON, payload
\* without the expected fields), the process is alive and no rejected promise
\* was left without a handler, so that the next request is handled.
C13_ListenerSurvives == running /\ ~unhandled

\* The request being handled is a GET on the webhook path, answered.
GetDone ==
    /\ pc = "done"
    /\ req # << >>
    /\ req[1].method = "GET"
    /\ req[1].path = config.webhookPath

\* The answer to a verification request whose challenge counts as given when
\* `given` holds: 200 with the challenge as body for mode "subscribe" and the
\* configured token, 403 otherwise; no message or status callback.
VerificationAnswered(given) ==
    LET q == req[1].query
    IN  /\ IF q.mode = <<"subscribe">> /\ q.token = <<config.verifyToken>> /\ given
           THEN response = <<Response(200, q.challenge[1])>>
           ELSE response # << >> /\ response[1].status = 403
        /\ EventsOfKind("onMessage") = << >>
        /\ EventsOfKind("onStatus") = << >>
        /\ EventsOfKind("markAsRead") = << >>

Dispatchable(cfg, m) ==
    cfg.dmPolicy = "open" \/ (m.from # << >> /\ PolicyAllows(cfg, m.from[1]))

\* C15: the message callbacks of one POST are made in the array order of the
\* payload: the messages dispatched are the first ones of the allowed
\* messages of the payload (entries, changes, messages in order), and all of
\* them when the processing did not throw.
C15_ArrayOrder ==
    PostDone =>
        LET msgs == SelectSeq(MessagesOf(req[1].json),
                              LAMBDA m : Dispatchable(config, m))
            calls == EventsOfKind("onMessage")
        IN  /\ IsPrefix([i \in 1..Len(calls) |->
                            <<calls[i].message.messageId, calls[i].message.from>>],
                        [i \in 1..Len(msgs) |-> <<msgs[i].id, msgs[i].from>>])
            /\ (Verified /\ ~threw) => Len(calls) = Len(msgs)

\* Two entries of one message each, dispatched in the order of the entries.
C15_Witness ==
    /\ PostDone
    /\ Len(EventsOfKind("onMessage")) = 2
    /\ Len(req[1].json.payload.entry[1]) = 2
    /\ EventsOfKind("onMessage")[1].message.messageId = "wamid.2"
    /\ EventsOfKind("onMessage")[2].message.messageId = "wamid.1"

\* C16: with sendReadReceipts, the call before each message callback is the
\* markAsRead of that message and each markAsRead is followed by the callback
\* of its message; however a markAsRead fetch settled, the message was
\* dispatched and no error was left; without sendReadReceipts there is no
\* markAsRead.
C16_ReceiptBeforeDispatch ==
    /\ \A i \in 1..Len(events) :
          /\ (events[i].kind = "onMessage" /\ config.sendReadReceipts) =>
                i > 1 /\ events[i - 1] = MarkAsReadEvent(events[i].message.messageId)
          /\ events[i].kind = "markAsRead" =>
                /\ config.sendReadReceipts
                /\ i < Len(events)
                /\ events[i + 1].kind = "onMessage"
                /\ events[i + 1].message.messageId = events[i].messageId
    /\ \A k \in 1..Len(settled) :
          /\ \E i \in 1..Len(events) :
                /\ events[i].kind = "onMessage"
                /\ events[i].message.messageId = settled[k].messageId
          /\ ~markAsRead(settled[k].outcome).threw
    /\ ~config.sendReadReceipts => (pending = << >> /\ settled = << >>)

\* Two messages dispatched; the receipt of one failed with a network
\* exception, that of the other with an HTTP error.
C16_Witness ==
    /\ PostDone
    /\ Len(EventsOfKind("onMessage")) = 2
    /\ Len(settled) = 2
    /\ settled[1].outcome.rejects
    /\ settled[2].outcome.status = 401
    /\ settled[1].messageId # settled[2].messageId

MediaKinds == {"image", "audio", "video", "document", "sticker"}

\* C19: no message handed to the message callback has both media and
\* interactiveReply; media is there only for the media kinds and
\* interactiveReply only for an interactive button or list reply.
C19_MediaOrReply ==
    \A i \in 1..Len(events) :
        events[i].kind = "onMessage" =>
            LET m == events[i].message
            IN  /\ ~(m.media # << >> /\ m.interactiveReply # << >>)
                /\ m.media # << >> => m.type \in MediaKinds
                /\ m.interactiveReply # << >> =>
                      /\ m.type = "interactive"
                      /\ m.interactiveReply[1].type \in {"button_reply", "list_reply"}

\* A document with its media.
C19_Witness ==
    /\ PostDone
    /\ Len(EventsOfKind("onMessage")) = 1
    /\ EventsOfKind("onMessage")[1].message.type = "document"
    /\ EventsOfKind("onMessage")[1].message.media # << >>
    /\ EventsOfKind("onMessage")[1].message.media[1].filename = <<"a.pdf">>
    /\ EventsOfKind("onMessage")[1].message.interactiveReply = << >>

\* The kinds extractMessageContent knows.
KnownKinds ==
    MediaKinds \cup {"text", "location", "contacts", "interactive", "button"}

\* The media object of a message of a media kind, as the payload carries it.
MediaOfPayload(m) ==
    CASE m.type = "image" -> m.image
      [] m.type = "audio" -> m.audio
      [] m.type = "video" -> m.video
      [] m.type = "document" -> m.document
      [] m.type = "sticker" -> m.sticker

\* The text of a message of a media kind or of an unknown kind, for given
\* placeholders of image, video, audio and document.
NormalizedText(m, image, video, audio, document) ==
    CASE m.type = "image" -> Coalesce(Chain(m.image, "caption"), image)
      [] m.type = "video" -> Coalesce(Chain(m.video, "caption"), video)
      [] m.type = "document" ->
           Coalesce(Chain(m.document, "caption"),
                    document \o Coalesce(Chain(m.document, "filename"), "file") \o "]")
      [] m.type = "audio" -> audio
      [] m.type = "sticker" -> "[Sticker]"
      [] OTHER -> "[" \o m.type \o " message <U+2014> not yet supported]"

\* Every message of a media kind or of an unknown kind was dispatched with
\* the text above, and with the MIME type of its media object.
NormalizedWith(image, video, audio, document) ==
    LET msgs == MessagesOf(req[1].json)
    IN  \A i \in 1..Len(events), k \in 1..Len(msgs) :
            (/\ events[i].kind = "onMessage"
             /\ events[i].message.messageId = msgs[k].id
             /\ events[i].message.from = msgs[k].from
             /\ msgs[k].type \in MediaKinds \cup (({msgs[k].type}) \ KnownKinds))
               => /\ events[i].message.text
                       = <<NormalizedText(msgs[k], image, video, audio, document)>>
                  /\ (msgs[k].type \in MediaKinds /\ MediaOfPayload(msgs[k]) # << >>)
                       => /\ events[i].message.media # << >>
                          /\ events[i].message.media[1].mimeType
                                = MediaOfPayload(msgs[k])[1].mime_type

RECURSIVE Remainders(_, _, _)
Remainders(remaining, maxLength, fuel) ==
    IF Len(remaining) > maxLength /\ fuel > 0
    THEN <<remaining>>
         \o Remainders(trimStart(sliceFrom(remaining,
                                            splitIndexOf(remaining, maxLength))),
                        maxLength, fuel - 1)
    ELSE <<remaining>>

\* C26: every iteration of the loop of splitMessage leaves a shorter
\* `remaining`, and the loop of a text of length L is over after L iterations
\* at most.
C26_SplitterTerminates ==
    LET rs == Remainders(sText, TextLimit, Len(sText) + 1)
    IN  /\ \A i \in 1..(Len(rs) - 1) : Len(rs[i + 1]) < Len(rs[i])
        /\ Len(rs) - 1 <= Len(sText)
        /\ Len(Last(rs)) <= TextLimit

\* A text split in two iterations, the second of which cuts at a space.
C26_Witness ==
    /\ sPc = "done"
    /\ Len(Remainders(sText, TextLimit, Len(sText) + 1)) = 3
    /\ Len(sChunks) = 3
    /\ Len(sChunks[2]) < TextLimit

\* C27: no request of sendText for a non-empty text has an empty body.
C27_NoEmptyChunk ==
    sText # << >> => \A k \in 1..Len(sCalls) : sCalls[k].body # << >>

\* The signature header h has the length in bytes of the value computed for
\* the request under verification, and is not that value.
WrongOfExpectedLength(h) ==
    LET expectedBuffer == BufferFrom(sign(vIn.rawBody, vIn.appSecret))
    IN  /\ h # << >>
        /\ Len(BufferFrom(h[1])) = Len(expectedBuffer)
        /\ BufferFrom(h[1]) # expectedBuffer

\* The number of bytes the comparison of verifyWebhookSignature examines for
\* the header h of expected length.
Examined(h) ==
    TimingSafeEqual(BufferFrom(h[1]),
                    BufferFrom(sign(vIn.rawBody, vIn.appSecret))).examined

MessagesChangesOnly(json) ==
    LET only(entry) ==
            IF entry.changes = << >> THEN entry
            ELSE Entry(<<SelectSeq(entry.changes[1],
                                   LAMBDA c : c.field = "messages")>>)
        entries == json.payload.entry
    IN  IF entries = << >> THEN json
        ELSE [json EXCEPT !.payload.entry =
                  <<[i \in 1..Len(entries[1]) |-> only(entries[1][i])]>>]

\* The body is JSON and its top-level `object` is the expected one.
Accepted(json) == json.kind = "object" /\ json.payload.object = ExpectedObject

\* The changes of the parsed body, those of all its entries in order.
ChangesOf(json) ==
    LET entries == Coalesce(json.payload.entry, << >>)
    IN  Flatten([i \in 1..Len(entries) |-> Coalesce(entries[i].changes, << >>)])

\* C23: a POST whose body is not JSON, or whose top-level object is not the
\* expected one, has no effect but the response; and the effects of an accepted
\* payload are those of the same payload without its changes of a field other
\* than "messages".
C23_OnlyMessagesChanges ==
    PostDone =>
        /\ ~Accepted(req[1].json) => events = <<RespondEvent(200, "OK")>>
        /\ (Accepted(req[1].json) /\ Verified) =>
              LET without == handleIncoming(
                                 [req[1] EXCEPT !.json = MessagesChangesOnly(@)],
                                 config, onStatus)
              IN  events = without.events /\ threw = without.threw

\* A change of field "account_update" is followed by a change of field
\* "messages" whose status and message are both handed to the callbacks.
C23_Witness ==
    /\ PostDone
    /\ Accepted(req[1].json)
    /\ \E i \in 1..Len(ChangesOf(req[1].json)) :
          ChangesOf(req[1].json)[i].field # "messages"
    /\ Len(EventsOfKind("onStatus")) = 1
    /\ Len(EventsOfKind("onMessage")) = 1
    /\ ~threw

\* The status updates of the parsed body: those of its changes of field
\* "messages", in order.
StatusesOf(json) ==
    LET changes == SelectSeq(ChangesOf(json),
                             LAMBDA c : c.field = "messages" /\ c.value # << >>)
    IN  Flatten([i \in 1..Len(changes) |-> Coalesce(changes[i].value[1].statuses, << >>)])

\* C24: with a status callback registered, the status callbacks of an accepted
\* POST are one per status update of its changes, in order, each with the id,
\* status and recipient id of its update; with none registered there is no
\* status callback and the other effects are those of the same POST handled
\* with one registered.
C24_StatusCallbacks ==
    (PostDone /\ Verified /\ Accepted(req[1].json)) =>
        LET updates == StatusesOf(req[1].json)
            registered == handleIncoming(req[1], config, TRUE)
        IN  IF onStatus
            THEN EventsOfKind("onStatus")
                    = [i \in 1..Len(updates) |->
                          [kind |-> "onStatus", messageId |-> updates[i].id,
                           status |-> updates[i].status,
                           recipientId |-> updates[i].recipient_id]]
            ELSE /\ EventsOfKind("onStatus") = << >>
                 /\ events = SelectSeq(registered.events,
                                       LAMBDA e : e.kind # "onStatus")
                 /\ threw = registered.threw

\* Two status updates and a message in one change, a callback registered.
C24_Witness ==
    /\ PostDone
    /\ onStatus
    /\ Len(StatusesOf(req[1].json)) = 2
    /\ Len(EventsOfKind("onStatus")) = 2
    /\ EventsOfKind("onStatus")[1].messageId # EventsOfKind("onStatus")[2].messageId
    /\ Len(EventsOfKind("onMessage")) = 1

\* The request is none of GET or POST on the webhook path and GET /health.
Unrouted ==
    /\ req # << >>
    /\ ~(req[1].method \in {"GET", "POST"} /\ req[1].path = config.webhookPath)
    /\ ~(req[1].method = "GET" /\ req[1].path = "/health")

\* C25: GET /health is answered 200 with the body
\* {"status":"ok","channel":"whatsapp-cloud"}; every request that is none of
\* GET or POST on the webhook path and GET /health is answered 404 and makes
\* no callback.
C25_HealthAndNotFound ==
    (pc = "done" /\ req # << >>) =>
        /\ (req[1].method = "GET" /\ req[1].path = "/health")
              => response = <<Response(200, HealthBody)>>
        /\ Unrouted =>
              /\ response = <<Response(404, "Not found")>>
              /\ EventsOfKind("onMessage") = << >>
              /\ EventsOfKind("onStatus") = << >>

\* The message ids in a sequence of ids.
Range(ids) == { ids[i] : i \in 1..Len(ids) }

\* C29: a message whose sender the access policy does not allow causes no
\* markAsRead call, no typing indicator and no message callback, with
\* sendReadReceipts set or not.
C29_BlockedHasNoEffect ==
    PostDone =>
        \A i \in 1..Len(MessagesOf(req[1].json)) :
            LET m == MessagesOf(req[1].json)[i]
            IN  ~Dispatchable(config, m) =>
                    /\ m.id \notin Range(MarkAsReadIds(events))
                    /\ m.id \notin Range(TypingIndicatorIds(events))
                    /\ TimesDispatched(m) = 0

\* With read receipts on, a batch of one allowed and one blocked message: one
\* receipt, one callback.
C29_Witness ==
    /\ PostDone
    /\ config.sendReadReceipts
    /\ Len(MessagesOf(req[1].json)) = 2
    /\ \E i \in 1..2 : ~Dispatchable(config, MessagesOf(req[1].json)[i])
    /\ Len(MarkAsReadIds(events)) = 1
    /\ Len(TypingIndicatorIds(events)) = 1

\* C30: under dmPolicy allowlist no message whose sender id has no digit is
\* dispatched, whatever allowFrom holds, and with an empty allowFrom no
\* message is dispatched.
C30_NoDigitsNeverDispatched ==
    (PostDone /\ config.dmPolicy = "allowlist") =>
        /\ \A i \in 1..Len(MessagesOf(req[1].json)) :
              LET m == MessagesOf(req[1].json)[i]
              IN  (m.from # << >> /\ DigitsOf(m.from[1]) = << >>)
                      => TimesDispatched(m) = 0
        /\ config.allowFrom = << >> => EventsOfKind("onMessage") = << >>

\* C28: after a stop, no server the gateway created is listening.
C28_StoppedMeansNoServer ==
    lastOp = "stop" => \A i \in 1..Len(servers) : ~servers[i].listening

\* C22: once both requests are over, or the process has ended, the effects of
\* each request that arrived are those of handling it alone, whatever the
\* order in which the two were handled; and the configuration is unchanged.
C22_Independent ==
    \A i \in DOMAIN cSlots :
        (/\ cSlots[i].req # << >>
         /\ ~cRunning \/ \A j \in DOMAIN cSlots : cSlots[j].pc = "done")
            => cSlots[i].events
                  = handleIncoming(cSlots[i].req[1], config, onStatus).events

=============================================================================
